---- MODULE Spec2Model ----
(***************************************************************************)
(* The data-access services of apex-prime-club (leads, deals, contacts,    *)
(* sales reps, team members, reports, analytics) over the record store     *)
(* client.  Every exported function is an async handler: a pacing delay,   *)
(* then one or two awaited calls of the record store, then a transform of  *)
(* the answer.  The code between two awaits runs atomically (one event     *)
(* loop), so an action of the model is the code from one await to the next *)
(* together with the record store's answer to the request it ends with.    *)
(***************************************************************************)
EXTENDS Integers, Sequences, FiniteSets, TLC

\* ----------------------------------------------------------------- bounds
\* Rows the record store holds per table, and so the Ids callers name.
MaxRecords == 2
\* The latest calendar day a session can run on (the first is day 0).
MaxDay == 1

\* ------------------------------------------------------------- JS values
\* A JavaScript value: its type tag t, the characters v of a string (a
\* sequence of tokens: one character each, or a URL scheme), and the number
\* n of a number.  An ISO timestamp is a string whose n is its calendar day.
Undefined == [t |-> "undefined", v |-> <<>>, n |-> 0]
Null == [t |-> "null", v |-> <<>>, n |-> 0]
Str(s) == [t |-> "string", v |-> s, n |-> 0]
Num(k) == [t |-> "number", v |-> <<>>, n |-> k]
\* new Date().toISOString() on day d
IsoString(d) == [t |-> "string", v |-> <<"T">>, n |-> d]
\* a lookup value {Id, Name} the record store returns for a reference field
Lookup(id, name) == [t |-> "object", v |-> name, n |-> id]
\* a plain object value (the permissions map), named by its tokens
Object(tokens) == [t |-> "object", v |-> tokens, n |-> 0]

\* !!x
Truthy(x) ==
  CASE x.t = "undefined" -> FALSE
    [] x.t = "null" -> FALSE
    [] x.t = "string" -> x.v # <<>>
    [] x.t = "number" -> x.n # 0
    [] OTHER -> TRUE

\* a || b
Or(a, b) == IF Truthy(a) THEN a ELSE b

\* obj.key: undefined when the object has no such key
Get(obj, key) == IF key \in DOMAIN obj THEN obj[key] ELSE Undefined

\* the object literal {} and one-key objects
EmptyObject == [k \in {} |-> Undefined]
With(obj, key, val) == [k \in DOMAIN obj \cup {key} |-> IF k = key THEN val ELSE obj[k]]

\* ---------------------------------------------------------------- strings
LowerChar(c) == IF c = "A" THEN "a" ELSE IF c = "B" THEN "b" ELSE c

\* String.prototype.toLowerCase
ToLowerCase(s) == [i \in 1..Len(s) |-> LowerChar(s[i])]

RECURSIVE TrimStart(_)
TrimStart(s) == IF s # <<>> /\ Head(s) = " " THEN TrimStart(Tail(s)) ELSE s

RECURSIVE TrimEnd(_)
TrimEnd(s) ==
  IF s # <<>> /\ s[Len(s)] = " " THEN TrimEnd(SubSeq(s, 1, Len(s) - 1)) ELSE s

\* String.prototype.trim
Trim(s) == TrimEnd(TrimStart(s))

\* url.replace(/\/$/, '')
StripTrailingSlash(s) ==
  IF s # <<>> /\ s[Len(s)] = "/" THEN SubSeq(s, 1, Len(s) - 1) ELSE s

\* url.replace(/^https?:\/\//, '')
StripScheme(s) ==
  IF s # <<>> /\ Head(s) \in {"http://", "https://"} THEN Tail(s) ELSE s

\* leadsService normalizeUrl
normalizeUrl(url) ==
  IF ~Truthy(url) THEN Str(<<>>) ELSE Str(StripTrailingSlash(ToLowerCase(url.v)))

\* reportService cleanWebsiteUrl: one trailing slash removed
cleanWebsiteUrl(url) ==
  IF ~Truthy(url) THEN url ELSE Str(StripTrailingSlash(url.v))

\* a validation that tests !x only and lets whitespace through
IsBlank_untrimmed(x) == ~Truthy(x)

\* a required text field is missing or blank: !x || !x.trim()
IsBlank(x) == ~Truthy(x) \/ ~Truthy(Str(Trim(x.v)))

\* ------------------------------------------------------------ record store
\* The tables of the record store; a row is an object with an Id.
Entities == {"lead_c", "deal_c", "contact_c", "sales_rep_c", "team_member_c"}

\* One condition of a `where` list.
Cond(field, operator, value) ==
  [FieldName |-> field, Operator |-> operator, Value |-> value]

\* the tokens of `needle` occur in `hay` one after the other
Contains(hay, needle) ==
  \E i \in 0..Len(hay) :
    /\ i + Len(needle) <= Len(hay)
    /\ \A j \in 1..Len(needle) : hay[i + j] = needle[j]

\* The record store's query operators, as the services use them: equality
\* of values (a reference field equals the Id it refers to), order of
\* timestamps by day, containment of text.
Holds(cond, row) ==
  LET f == Get(row, cond.FieldName)
      x == cond.Value
      same == IF f.t = "object" /\ x.t = "number" THEN f.n = x.n ELSE f = x
  IN CASE cond.Operator = "EqualTo" -> same
       [] cond.Operator = "NotEqualTo" -> ~same
       [] cond.Operator = "GreaterThanOrEqualTo" -> f.t = "string" /\ f.n >= x.n
       [] cond.Operator = "LessThanOrEqualTo" -> f.t = "string" /\ f.n <= x.n
       [] cond.Operator = "LessThan" -> f.t = "string" /\ f.n < x.n
       [] cond.Operator = "Contains" -> f.t = "string" /\ Contains(ToLowerCase(f.v), x.v)
       [] OTHER -> FALSE

Matches(row, where) == \A i \in 1..Len(where) : Holds(where[i], row)

\* the requested fields of a row; the Id always comes with them
Project(row, fields) == [k \in (fields \cup {"Id"}) \cap DOMAIN row |-> row[k]]

\* rows as a list, newest Id first
RECURSIVE RowSeq(_)
RowSeq(rows) ==
  IF rows = {} THEN <<>>
  ELSE LET r == CHOOSE r \in rows : \A q \in rows : q["Id"].n <= r["Id"].n
       IN <<r>> \o RowSeq(rows \ {r})

\* the {success, data | results, message} envelope, or a thrown exception
Envelope(thrown, success, hasData, data, hasResults, results) ==
  [received |-> TRUE, thrown |-> thrown, success |-> success,
   hasData |-> hasData, data |-> data,
   hasResults |-> hasResults, results |-> results]

NoResponse ==
  [received |-> FALSE, thrown |-> FALSE, success |-> FALSE,
   hasData |-> FALSE, data |-> <<>>, hasResults |-> FALSE, results |-> <<>>]

\* What the record store can answer to a read and to a write.
ReadOutcomes == {"throw", "fail", "nodata", "ok"}
WriteOutcomes == {"throw", "fail", "noresults", "empty", "recfail", "ok"}

\* fetchRecords(entityName, {fields, where, orderBy})
fetchRecords(rows, fields, where, out) ==
  CASE out = "throw" -> Envelope(TRUE, FALSE, FALSE, <<>>, FALSE, <<>>)
    [] out = "fail" -> Envelope(FALSE, FALSE, FALSE, <<>>, FALSE, <<>>)
    [] out = "nodata" -> Envelope(FALSE, TRUE, FALSE, <<>>, FALSE, <<>>)
    [] OTHER ->
       Envelope(FALSE, TRUE, TRUE,
                RowSeq({Project(r, fields) : r \in {q \in rows : Matches(q, where)}}),
                FALSE, <<>>)

\* getRecordById(entityName, id, {fields}): the row as data, when there is one
getRecordById(rows, id, fields, out) ==
  LET found == {r \in rows : r["Id"] = id}
  IN CASE out = "throw" -> Envelope(TRUE, FALSE, FALSE, <<>>, FALSE, <<>>)
       [] out = "nodata" -> Envelope(FALSE, TRUE, FALSE, <<>>, FALSE, <<>>)
       [] out = "ok" /\ found # {} ->
          Envelope(FALSE, TRUE, TRUE, RowSeq({Project(r, fields) : r \in found}), FALSE, <<>>)
       [] OTHER -> Envelope(FALSE, FALSE, FALSE, <<>>, FALSE, <<>>)

\* the smallest Id no row of the table has
FreshId(rows) ==
  CHOOSE i \in 1..(Cardinality(rows) + 1) :
    /\ \A r \in rows : r["Id"] # Num(i)
    /\ \A j \in 1..(i - 1) : \E r \in rows : r["Id"] = Num(j)

\* the row a write acts on: the new row of a create, the merged row of an
\* update, the removed row of a delete
WrittenRow(rows, primitive, record) ==
  LET old == CHOOSE r \in rows : r["Id"] = Get(record, "Id")
  IN CASE primitive = "createRecord" -> With(record, "Id", Num(FreshId(rows)))
       [] primitive = "updateRecord" ->
          [k \in DOMAIN old \cup DOMAIN record |->
             IF k \in DOMAIN record THEN record[k] ELSE old[k]]
       [] OTHER -> old

\* whether the record store can carry out the write
Applies(rows, primitive, record) ==
  IF primitive = "createRecord" THEN Cardinality(rows) < MaxRecords
  ELSE \E r \in rows : r["Id"] = Get(record, "Id")

\* the table after a write that was carried out
TableAfter(rows, primitive, record) ==
  LET old == {r \in rows : r["Id"] = Get(record, "Id")}
  IN CASE primitive = "createRecord" -> rows \cup {WrittenRow(rows, primitive, record)}
       [] primitive = "updateRecord" ->
          (rows \ old) \cup {WrittenRow(rows, primitive, record)}
       [] OTHER -> rows \ old

\* createRecord / updateRecord / deleteRecord: the envelope of one record
writeRecord(rows, primitive, record, out) ==
  CASE out = "throw" -> Envelope(TRUE, FALSE, FALSE, <<>>, FALSE, <<>>)
    [] out = "fail" -> Envelope(FALSE, FALSE, FALSE, <<>>, FALSE, <<>>)
    [] out = "noresults" -> Envelope(FALSE, TRUE, FALSE, <<>>, FALSE, <<>>)
    [] out = "empty" -> Envelope(FALSE, TRUE, FALSE, <<>>, TRUE, <<>>)
    [] out = "ok" /\ Applies(rows, primitive, record) ->
       Envelope(FALSE, TRUE, FALSE, <<>>, TRUE,
                <<[success |-> TRUE, data |-> WrittenRow(rows, primitive, record)]>>)
    [] OTHER ->
       Envelope(FALSE, TRUE, FALSE, <<>>, TRUE,
                <<[success |-> FALSE, data |-> EmptyObject]>>)

\* the answer reports the record as written
Written(resp) ==
  /\ ~resp.thrown /\ resp.success /\ resp.hasResults
  /\ resp.results # <<>> /\ resp.results[1].success

\* ------------------------------------------------------- service helpers
\* What a handler hands back: a value, or an exception with its message.
NoResult == [kind |-> "none"]
Returned(val) == [kind |-> "returned", val |-> val]
Threw(msg) == [kind |-> "threw", msg |-> msg]

\* One line of a field-renaming table: the application key, the record
\* store's field, how the value is taken, and the default it falls back to.
\*   raw         row.field
\*   or          row.field || default
\*   input       row.field || data.key          (the caller's input)
\*   clean       cleanWebsiteUrl(row.field || default)
\*   lookupId    row.field?.Id || row.field
\*   lookupName  row.field?.Name || default
\*   now         row.field || new Date().toISOString()
\*   json        row.field ? JSON.parse(row.field) : default
\*   jsonInput   row.field ? JSON.parse(row.field) : data.key
Field(key, field, mode, default) ==
  [key |-> key, field |-> field, mode |-> mode, default |-> default]

\* JSON.stringify and JSON.parse of a value the model names by its tokens
JSONstringify(x) == Str(<<"json", x.t>> \o x.v)
JSONparse(s) == [t |-> s.v[2], v |-> SubSeq(s.v, 3, Len(s.v)), n |-> 0]

\* a renaming that substitutes no default
FieldValue_noDefault(e, row, data, today) == Get(row, e.field)

\* the value of one line of a table for a row
FieldValue(e, row, data, today) ==
  LET f == Get(row, e.field)
  IN CASE e.mode = "raw" -> f
       [] e.mode = "or" -> Or(f, e.default)
       [] e.mode = "input" -> Or(f, Get(data, e.key))
       [] e.mode = "clean" -> cleanWebsiteUrl(Or(f, e.default))
       [] e.mode = "lookupId" -> IF f.t = "object" THEN Or(Num(f.n), f) ELSE f
       [] e.mode = "lookupName" -> IF f.t = "object" THEN Or(Str(f.v), e.default) ELSE e.default
       [] e.mode = "now" -> Or(f, IsoString(today))
       [] e.mode = "json" -> IF Truthy(f) THEN JSONparse(f) ELSE e.default
       [] OTHER -> IF Truthy(f) THEN JSONparse(f) ELSE Get(data, e.key)

\* the application-facing object of a row
Transform(table, row, data, today) ==
  [k \in {table[i].key : i \in 1..Len(table)} |->
     LET e == table[CHOOSE i \in 1..Len(table) : table[i].key = k]
     IN FieldValue(e, row, data, today)]

\* the list of application-facing objects of a list of rows
TransformAll(table, rows, today) ==
  [i \in 1..Len(rows) |-> Transform(table, rows[i], EmptyObject, today)]

\* a truthiness test in place of !== undefined: drops 0, '' and null
Defined_truthy(x) == Truthy(x)

\* updates.key !== undefined
Defined(x) == x # Undefined

\* One line of an update table: the application key, the field it is sent
\* as, and the conversion of the value (as is, lower-cased, stringified).
Sent(key, field, conv) == [key |-> key, field |-> field, conv |-> conv]

Converted(conv, x) ==
  CASE conv = "lower" -> Str(ToLowerCase(x.v))
    [] conv = "json" -> JSONstringify(x)
    [] OTHER -> x

\* if (updates.key !== undefined) recordData.field = updates.key; line by line
RECURSIVE ApplyUpdates(_, _, _)
ApplyUpdates(recordData, updates, table) ==
  IF table = <<>> THEN recordData
  ELSE LET e == Head(table)
           x == Get(updates, e.key)
       IN ApplyUpdates(IF Defined(x) THEN With(recordData, e.field, Converted(e.conv, x))
                       ELSE recordData,
                       updates, Tail(table))

\* a handler that reads the envelope and not the record's own result
WriteResult_perRecordIgnored(resp, value, failMsg) ==
  IF resp.thrown THEN Threw("client error")
  ELSE IF ~resp.success THEN Threw("response.message")
  ELSE IF resp.hasResults /\ Len(resp.results) > 0
       THEN Returned(value)
       ELSE Threw("No response data received")

\* The answer of createRecord / updateRecord, as every create and update
\* handler reads it: the transformed record, or an exception.
WriteResult(resp, value, failMsg) ==
  IF resp.thrown THEN Threw("client error")
  ELSE IF ~resp.success THEN Threw("response.message")
  ELSE IF resp.hasResults /\ Len(resp.results) > 0
       THEN IF resp.results[1].success THEN Returned(value) ELSE Threw(failMsg)
       ELSE Threw("No response data received")

\* a delete handler that throws when no per-record result came back
DeleteResult_strict(resp, failMsg) ==
  IF resp.thrown THEN Threw("client error")
  ELSE IF ~resp.success THEN Threw("response.message")
  ELSE IF resp.hasResults /\ Len(resp.results) > 0
       THEN IF resp.results[1].success THEN Returned([success |-> TRUE]) ELSE Threw(failMsg)
       ELSE Threw("No response data received")

\* The answer of deleteRecord, as every delete handler reads it.
DeleteResult(resp, failMsg) ==
  IF resp.thrown THEN Threw("client error")
  ELSE IF ~resp.success THEN Threw("response.message")
  ELSE IF resp.hasResults /\ Len(resp.results) > 0
       THEN IF resp.results[1].success THEN Returned([success |-> TRUE]) ELSE Threw(failMsg)
       ELSE Returned([success |-> TRUE])

\* The answer of fetchRecords, as every list handler reads it: the
\* transformed rows, or the empty default when the answer is a failure.
ListResult(resp, table, today, default) ==
  IF resp.thrown \/ ~resp.success THEN Returned(default)
  ELSE Returned(TransformAll(table, IF resp.hasData THEN resp.data ELSE <<>>, today))

\* a get-by-id handler that hands back null when the record is not there
ByIdResult_default(resp, table, today, notFound) ==
  IF resp.thrown \/ ~resp.success \/ ~resp.hasData THEN Returned(Null)
  ELSE Returned(Transform(table, resp.data[1], EmptyObject, today))

\* The answer of getRecordById, as every get-by-id handler reads it: the
\* transformed row, or "<entity> not found" (also when reading the absent
\* data throws).
ByIdResult(resp, table, today, notFound) ==
  IF resp.thrown \/ ~resp.success \/ ~resp.hasData THEN Threw(notFound)
  ELSE Returned(Transform(table, resp.data[1], EmptyObject, today))

\* an existence test that needs two rows to see a duplicate
DuplicateFound_offByOne(resp) == resp.success /\ resp.hasData /\ Len(resp.data) > 1

\* existingResponse.success && existingResponse.data && existingResponse.data.length > 0
DuplicateFound(resp) == resp.success /\ resp.hasData /\ Len(resp.data) > 0

\* ------------------------------------------------------------------ state
\* The handlers that can be in flight at once.
Callers == {1, 2}

VARIABLES
  service,   \* the service module the session drives
  now,       \* the calendar day the session runs on
  store,     \* the record store: the rows of each table
  pc,        \* per caller: idle, called (in its pacing delay), ..., done
  op,        \* per caller: the exported function in flight
  arg,       \* per caller: its arguments [id, data]
  existing,  \* per caller: the answer to its earlier request (an existence query)
  results,   \* per caller: what its loop of requests has gone through so far
  response,  \* per caller: the answer to its last request
  sent,      \* per caller: the record of its last write request
  calls,     \* per caller: requests made by this invocation, per primitive
  result     \* per caller: what the handler handed back

vars == <<service, now, store, pc, op, arg, existing, results, response, sent, calls, result>>

Primitives == {"fetchRecords", "getRecordById", "createRecord", "updateRecord", "deleteRecord"}
NoCalls == [q \in Primitives |-> 0]
NoArg == [id |-> Null, data |-> EmptyObject]
NoRecord == EmptyObject
NoResults == <<>>

\* The exported functions a session drives: those of one service module
\* over a store that starts empty, or the reports of the analytics and
\* report services and of the leads service over a store that holds rows.
ServiceOps ==
  [leads |-> {"getLeads", "getLeadById", "createLead", "updateLead", "deleteLead",
              "getPendingFollowUps"},
   deals |-> {"getDeals", "getDealById", "createDeal", "updateDeal", "deleteDeal"},
   contacts |-> {"getContacts", "getContactById", "createContact", "updateContact",
                 "deleteContact"},
   salesReps |-> {"getSalesReps", "getSalesRepById", "createSalesRep", "updateSalesRep",
                  "deleteSalesRep"},
   teamMembers |-> {"getTeamMembers", "getTeamMemberById", "inviteTeamMember",
                    "updateTeamMember", "removeTeamMember", "activateTeamMember",
                    "deactivateTeamMember"},
   reports |-> {"getWebsiteUrlActivity", "getDailyWebsiteUrls", "getSalesRepsForFilter",
                "getLeadsAnalytics", "getDailyLeadsChart", "getUserPerformance",
                "getLeadsMetrics"},
   leadReports |-> {"getLeads", "getDailyLeadsReport", "getFreshLeadsOnly"}]

Services == DOMAIN ServiceOps

\* ------------------------------------------------------------ leadsService
LeadFieldNames ==
  {"Name", "website_url_c", "team_size_c", "arr_c", "category_c", "linkedin_url_c",
   "status_c", "funding_type_c", "edition_c", "follow_up_date_c", "added_by_c",
   "created_at_c"}

\* getLeads, getLeadById and updateLead: the object of a lead row
LeadFields ==
  << Field("Id", "Id", "raw", Undefined),
     Field("websiteUrl", "website_url_c", "or", Str(<<>>)),
     Field("teamSize", "team_size_c", "or", Str(<<"1-3">>)),
     Field("arr", "arr_c", "or", Num(0)),
     Field("category", "category_c", "or", Str(<<>>)),
     Field("linkedinUrl", "linkedin_url_c", "or", Str(<<>>)),
     Field("status", "status_c", "or", Str(<<"Keep an Eye">>)),
     Field("fundingType", "funding_type_c", "or", Str(<<"Bootstrapped">>)),
     Field("edition", "edition_c", "or", Str(<<"Select Edition">>)),
     Field("followUpDate", "follow_up_date_c", "or", Null),
     Field("addedBy", "added_by_c", "lookupId", Undefined),
     Field("addedByName", "added_by_c", "lookupName", Str(<<"Unknown">>)),
     Field("createdAt", "created_at_c", "now", Undefined) >>

\* createLead: the object of the created row falls back to the input
CreatedLeadFields ==
  << Field("Id", "Id", "raw", Undefined),
     Field("websiteUrl", "website_url_c", "input", Undefined),
     Field("teamSize", "team_size_c", "input", Undefined),
     Field("arr", "arr_c", "input", Undefined),
     Field("category", "category_c", "input", Undefined),
     Field("linkedinUrl", "linkedin_url_c", "input", Undefined),
     Field("status", "status_c", "input", Undefined),
     Field("fundingType", "funding_type_c", "input", Undefined),
     Field("edition", "edition_c", "input", Undefined),
     Field("followUpDate", "follow_up_date_c", "input", Undefined),
     Field("addedBy", "added_by_c", "lookupId", Undefined),
     Field("addedByName", "added_by_c", "lookupName", Str(<<"Unknown">>)),
     Field("createdAt", "created_at_c", "now", Undefined) >>

\* getPendingFollowUps: the object of a lead row
FollowUpFields ==
  << Field("Id", "Id", "raw", Undefined),
     Field("websiteUrl", "website_url_c", "or", Str(<<>>)),
     Field("category", "category_c", "or", Str(<<>>)),
     Field("followUpDate", "follow_up_date_c", "raw", Undefined),
     Field("addedBy", "added_by_c", "lookupId", Undefined),
     Field("addedByName", "added_by_c", "lookupName", Str(<<"Unknown">>)) >>

\* an update that cannot send the edition
LeadUpdateFields_noEdition ==
  << Sent("websiteUrl", "website_url_c", "asis"),
     Sent("teamSize", "team_size_c", "asis"),
     Sent("arr", "arr_c", "asis"),
     Sent("category", "category_c", "asis"),
     Sent("linkedinUrl", "linkedin_url_c", "asis"),
     Sent("status", "status_c", "asis"),
     Sent("fundingType", "funding_type_c", "asis"),
     Sent("followUpDate", "follow_up_date_c", "asis"),
     Sent("addedBy", "added_by_c", "asis") >>

\* updateLead: the fields an update can send
LeadUpdateFields ==
  << Sent("websiteUrl", "website_url_c", "asis"),
     Sent("teamSize", "team_size_c", "asis"),
     Sent("arr", "arr_c", "asis"),
     Sent("category", "category_c", "asis"),
     Sent("linkedinUrl", "linkedin_url_c", "asis"),
     Sent("status", "status_c", "asis"),
     Sent("fundingType", "funding_type_c", "asis"),
     Sent("edition", "edition_c", "asis"),
     Sent("followUpDate", "follow_up_date_c", "asis"),
     Sent("addedBy", "added_by_c", "asis") >>

\* createLead: the record sent to createRecord
LeadRecord(leadData, today) ==
  [Name |-> Str(StripTrailingSlash(StripScheme(Get(leadData, "websiteUrl").v))),
   website_url_c |-> Get(leadData, "websiteUrl"),
   team_size_c |-> Or(Get(leadData, "teamSize"), Str(<<"1-3">>)),
   arr_c |-> Or(Get(leadData, "arr"), Num(0)),
   category_c |-> Or(Get(leadData, "category"), Str(<<"Other">>)),
   linkedin_url_c |-> Or(Get(leadData, "linkedinUrl"), Str(<<>>)),
   status_c |-> Or(Get(leadData, "status"), Str(<<"Keep an Eye">>)),
   funding_type_c |-> Or(Get(leadData, "fundingType"), Str(<<"Bootstrapped">>)),
   edition_c |-> Or(Get(leadData, "edition"), Str(<<"Select Edition">>)),
   follow_up_date_c |-> Or(Get(leadData, "followUpDate"), Null),
   added_by_c |-> Or(Get(leadData, "addedBy"), Null),
   created_at_c |-> IsoString(today)]

\* the inputs the callers draw from
LeadUrls == {Undefined, Str(<<" ">>), Str(<<"a">>), Str(<<"A">>), Str(<<"a", "/">>)}
LeadDataInputs ==
  {IF u = Undefined THEN EmptyObject ELSE [websiteUrl |-> u] : u \in LeadUrls}
LeadUpdateInputs ==
  {EmptyObject,
   [websiteUrl |-> Str(<<"a">>)],
   [status |-> Str(<<"Keep an Eye">>), arr |-> Undefined],
   [followUpDate |-> Null, createdAt |-> IsoString(0)]}

\* ---------------------------------------------------------- handler steps
\* A caller enters exported function o with arguments a and waits out its
\* pacing delay.
Invoke(p, o, a) ==
  /\ pc[p] = "idle"
  /\ o \in ServiceOps[service]
  /\ op' = [op EXCEPT ![p] = o]
  /\ arg' = [arg EXCEPT ![p] = a]
  /\ pc' = [pc EXCEPT ![p] = "called"]
  /\ UNCHANGED <<service, now, store, existing, results, response, sent, calls, result>>

\* The caller takes the value or the exception; the invocation is over.
Return(p) ==
  /\ pc[p] = "done"
  /\ pc' = [pc EXCEPT ![p] = "idle"]
  /\ op' = [op EXCEPT ![p] = "none"]
  /\ arg' = [arg EXCEPT ![p] = NoArg]
  /\ existing' = [existing EXCEPT ![p] = NoResponse]
  /\ results' = [results EXCEPT ![p] = NoResults]
  /\ response' = [response EXCEPT ![p] = NoResponse]
  /\ sent' = [sent EXCEPT ![p] = NoRecord]
  /\ calls' = [calls EXCEPT ![p] = NoCalls]
  /\ result' = [result EXCEPT ![p] = NoResult]
  /\ UNCHANGED <<service, now, store>>

\* the handler made one request and got its answer
Request(p, primitive, resp) ==
  /\ response' = [response EXCEPT ![p] = resp]
  /\ calls' = [calls EXCEPT ![p][primitive] = @ + 1]

\* the handler hands back res
Finish(p, res) ==
  /\ result' = [result EXCEPT ![p] = res]
  /\ pc' = [pc EXCEPT ![p] = "done"]

\* the handler throws before it made any request
Reject(p, msg) ==
  /\ Finish(p, Threw(msg))
  /\ UNCHANGED <<service, now, store, op, arg, existing, results, response, sent, calls>>

\* a handler that makes its write again when the answer is not a success
AfterWrite_retrying(resp, at) == IF Written(resp) THEN "done" ELSE at

\* Where a handler stands after the answer to its write: it handles the
\* answer and ends, whatever the answer is.
AfterWrite(resp, at) == "done"

\* a read handler whose catch block throws the exception on
ReadStep_rethrowing(p, primitive, resp, res) ==
  /\ Request(p, primitive, resp)
  /\ Finish(p, IF resp.thrown THEN Threw("client error") ELSE res)
  /\ UNCHANGED <<service, now, store, op, arg, existing, results, sent>>

\* A handler's only request is a read: it hands back what it makes of the answer.
ReadStep(p, primitive, resp, res) ==
  /\ Request(p, primitive, resp)
  /\ Finish(p, res)
  /\ UNCHANGED <<service, now, store, op, arg, existing, results, sent>>

\* A handler's last request is a write of `record` to `table`, answered
\* with `resp`; the record store carries it out when it answers that it
\* did, and the handler hands back `res`.
WriteStep(p, at, table, primitive, record, resp, res) ==
  /\ store' = [store EXCEPT ![table] =
                 IF Written(resp) THEN TableAfter(@, primitive, record) ELSE @]
  /\ sent' = [sent EXCEPT ![p] = record]
  /\ Request(p, primitive, resp)
  /\ result' = [result EXCEPT ![p] = res]
  /\ pc' = [pc EXCEPT ![p] = AfterWrite(resp, at)]
  /\ UNCHANGED <<service, now, op, arg, existing, results>>

\* A handler's first request is an existence query; it goes on when the
\* query did not throw.
QueryStep(p, resp) ==
  /\ Request(p, "fetchRecords", resp)
  /\ IF resp.thrown
     THEN /\ Finish(p, Threw("client error"))
          /\ UNCHANGED existing
     ELSE /\ existing' = [existing EXCEPT ![p] = resp]
          /\ pc' = [pc EXCEPT ![p] = "checked"]
          /\ UNCHANGED result
  /\ UNCHANGED <<service, now, store, op, arg, sent, results>>

At(p, o, at) == pc[p] = at /\ op[p] = o

\* ------------------------------------------------- leadsService handlers
getLeads(p) ==
  /\ At(p, "getLeads", "called")
  /\ \E out \in ReadOutcomes :
       LET resp == fetchRecords(store["lead_c"], LeadFieldNames, <<>>, out)
           list == ListResult(resp, LeadFields, now, <<>>)
       IN ReadStep(p, "fetchRecords", resp,
                   Returned([leads |-> list.val, deduplicationResult |-> Null]))

getLeadById(p) ==
  /\ At(p, "getLeadById", "called")
  /\ \E out \in ReadOutcomes :
       LET resp == getRecordById(store["lead_c"], arg[p].id, LeadFieldNames, out)
       IN ReadStep(p, "getRecordById", resp,
                   ByIdResult(resp, LeadFields, now, "Lead not found"))

\* createLead up to the answer to its existence query
createLead_check(p, outs) ==
  /\ At(p, "createLead", "called")
  /\ LET url == Get(arg[p].data, "websiteUrl")
     IN IF IsBlank(url)
        THEN Reject(p, "Website URL is required")
        ELSE \E out \in outs :
               QueryStep(p, fetchRecords(store["lead_c"], {"website_url_c"},
                                         <<Cond("website_url_c", "EqualTo", url)>>, out))

\* createLead from the answer to its existence query on
createLead_create(p, outs) ==
  /\ At(p, "createLead", "checked")
  /\ IF DuplicateFound(existing[p])
     THEN Reject(p, "A lead with this website URL already exists")
     ELSE \E out \in outs :
            LET record == LeadRecord(arg[p].data, now)
                resp == writeRecord(store["lead_c"], "createRecord", record, out)
            IN WriteStep(p, "checked", "lead_c", "createRecord", record, resp,
                         WriteResult(resp,
                                     Transform(CreatedLeadFields, resp.results[1].data, arg[p].data, now),
                                     "Failed to create lead"))

updateLead(p) ==
  /\ At(p, "updateLead", "called")
  /\ \E out \in WriteOutcomes :
       LET record == ApplyUpdates([Id |-> arg[p].id], arg[p].data, LeadUpdateFields)
           resp == writeRecord(store["lead_c"], "updateRecord", record, out)
       IN WriteStep(p, "called", "lead_c", "updateRecord", record, resp,
                    WriteResult(resp,
                                Transform(LeadFields, resp.results[1].data, EmptyObject, now),
                                "Failed to update lead"))

deleteLead(p) ==
  /\ At(p, "deleteLead", "called")
  /\ \E out \in WriteOutcomes :
       LET record == [Id |-> arg[p].id]
           resp == writeRecord(store["lead_c"], "deleteRecord", record, out)
       IN WriteStep(p, "called", "lead_c", "deleteRecord", record, resp,
                    DeleteResult(resp, "Failed to delete lead"))

getPendingFollowUps(p) ==
  /\ At(p, "getPendingFollowUps", "called")
  /\ \E out \in ReadOutcomes :
       LET where == << Cond("follow_up_date_c", "GreaterThanOrEqualTo", IsoString(now)),
                       Cond("follow_up_date_c", "LessThanOrEqualTo", IsoString(now + 7)) >>
           resp == fetchRecords(store["lead_c"],
                                {"Name", "website_url_c", "category_c", "follow_up_date_c",
                                 "added_by_c"}, where, out)
       IN ReadStep(p, "fetchRecords", resp, ListResult(resp, FollowUpFields, now, <<>>))

\* ------------------------------------------- leadsService daily report
\* salesReps.forEach(rep => reportData[rep.Name] = {...}): one row per name,
\* in the order the names first come, holding the Id of the last rep of
\* that name
RECURSIVE RepRows(_)
RepRows(salesReps) ==
  IF salesReps = <<>> THEN <<>>
  ELSE LET rep == salesReps[Len(salesReps)]
           rows == RepRows(SubSeq(salesReps, 1, Len(salesReps) - 1))
           row == [salesRep |-> Get(rep, "Name"), salesRepId |-> rep["Id"], leads |-> <<>>,
                   leadCount |-> 0, lowPerformance |-> FALSE]
           at == {i \in 1..Len(rows) : rows[i].salesRep = row.salesRep}
       IN IF at = {} THEN Append(rows, row)
          ELSE [rows EXCEPT ![CHOOSE i \in at : TRUE] = row]

\* the body of todaysLeads.forEach: the lead goes to the row of its rep's
\* name, or to the 'Unknown' row when it names no rep, or nowhere
AddLead(rows, lead) ==
  LET by == Get(lead, "added_by_c")
      repName == IF by.t = "object" THEN Or(Str(by.v), Str(<<"Unknown">>))
                 ELSE Str(<<"Unknown">>)
      entry == [Id |-> lead["Id"], websiteUrl |-> Get(lead, "website_url_c"),
                createdAt |-> Get(lead, "created_at_c")]
      at == {i \in 1..Len(rows) : rows[i].salesRep = repName}
  IN IF at # {}
     THEN [rows EXCEPT ![CHOOSE i \in at : TRUE].leads = Append(@, entry)]
     ELSE IF repName = Str(<<"Unknown">>)
          THEN Append(rows, [salesRep |-> repName, salesRepId |-> Null, leads |-> <<entry>>,
                             leadCount |-> 0, lowPerformance |-> FALSE])
          ELSE rows

RECURSIVE AddLeads(_, _)
AddLeads(rows, leads) ==
  IF leads = <<>> THEN rows ELSE AddLeads(AddLead(rows, Head(leads)), Tail(leads))

\* .sort((a, b) => b.leads.length - a.leads.length): a stable sort
RECURSIVE SortByLeadCount(_)
SortByLeadCount(rows) ==
  IF rows = <<>> THEN <<>>
  ELSE LET i == CHOOSE i \in 1..Len(rows) :
                  /\ \A j \in 1..Len(rows) : Len(rows[j].leads) <= Len(rows[i].leads)
                  /\ \A j \in 1..(i - 1) : Len(rows[j].leads) < Len(rows[i].leads)
       IN <<rows[i]>> \o SortByLeadCount(SubSeq(rows, 1, i - 1) \o SubSeq(rows, i + 1, Len(rows)))

\* getDailyLeadsReport: the rows of the sales reps and of today's leads
DailyReport(salesReps, todaysLeads) ==
  LET rows == AddLeads(RepRows(salesReps), todaysLeads)
  IN SortByLeadCount([i \in 1..Len(rows) |->
                        [rows[i] EXCEPT !.leadCount = Len(rows[i].leads),
                                        !.lowPerformance = Len(rows[i].leads) < 5]])

\* getDailyLeadsReport up to the answer to its query of today's leads
getDailyLeadsReport_leads(p) ==
  /\ At(p, "getDailyLeadsReport", "called")
  /\ \E out \in ReadOutcomes :
       LET where == << Cond("created_at_c", "GreaterThanOrEqualTo", IsoString(now)),
                       Cond("created_at_c", "LessThan", IsoString(now + 1)) >>
           resp == fetchRecords(store["lead_c"],
                                {"Name", "website_url_c", "added_by_c", "created_at_c"},
                                where, out)
       IN /\ Request(p, "fetchRecords", resp)
          /\ IF resp.thrown
             THEN Finish(p, Returned(<<>>)) /\ UNCHANGED existing
             ELSE /\ existing' = [existing EXCEPT ![p] = resp]
                  /\ pc' = [pc EXCEPT ![p] = "fetched"]
                  /\ UNCHANGED result
          /\ UNCHANGED <<service, now, store, op, arg, sent, results>>

\* getDailyLeadsReport from its sales reps query on; a list that did not
\* come with a successful answer throws into the catch block
getDailyLeadsReport_reps(p) ==
  /\ At(p, "getDailyLeadsReport", "fetched")
  /\ \E out \in ReadOutcomes :
       LET resp == fetchRecords(store["sales_rep_c"], {"Name"}, <<>>, out)
           todaysLeads == IF existing[p].success THEN existing[p].data ELSE <<>>
           salesReps == IF resp.success THEN resp.data ELSE <<>>
       IN ReadStep(p, "fetchRecords", resp,
                   IF \/ resp.thrown
                      \/ existing[p].success /\ ~existing[p].hasData
                      \/ resp.success /\ ~resp.hasData
                   THEN Returned(<<>>)
                   ELSE Returned(DailyReport(salesReps, todaysLeads)))

\* ---------------------------------------------- leadsService fresh leads
\* lead.createdAt || lead.created_at_c and lead.websiteUrl || lead.website_url_c
CreatedOf(lead) == Or(Get(lead, "createdAt"), Get(lead, "created_at_c"))
UrlOf(lead) == Or(Get(lead, "websiteUrl"), Get(lead, "website_url_c"))

\* new Date(x).toDateString() === today.toDateString()
IsToday(x, today) == x.t = "string" /\ x.v = <<"T">> /\ x.n = today

\* leadsArray.filter(lead => its date is today)
RECURSIVE TodaysLeads(_, _)
TodaysLeads(leadsArray, today) ==
  IF leadsArray = <<>> THEN <<>>
  ELSE (IF IsToday(CreatedOf(Head(leadsArray)), today) THEN <<Head(leadsArray)>> ELSE <<>>)
       \o TodaysLeads(Tail(leadsArray), today)

\* !existingResponse.success || !existingResponse.data || existingResponse.data.length === 0
IsFresh(resp) == ~resp.success \/ ~resp.hasData \/ Len(resp.data) = 0

\* freshLeads: the leads the loop has pushed, of the leads it went through
RECURSIVE FreshLeads(_)
FreshLeads(verdicts) ==
  IF verdicts = <<>> THEN <<>>
  ELSE (IF Head(verdicts).fresh THEN <<Head(verdicts).lead>> ELSE <<>>)
       \o FreshLeads(Tail(verdicts))

\* getFreshLeadsOnly: with no lead of today it hands back the empty list at
\* once; otherwise one turn of its loop, the existence query of the next of
\* today's leads and its answer.  A query that throws ends the loop in the
\* catch block, which hands back all of today's leads.
getFreshLeadsOnly(p) ==
  /\ At(p, "getFreshLeadsOnly", "called")
  /\ LET todaysLeads == TodaysLeads(Get(arg[p].data, "leadsArray"), now)
     IN IF todaysLeads = <<>>
        THEN /\ Finish(p, Returned(<<>>))
             /\ UNCHANGED <<service, now, store, op, arg, existing, results, response, sent, calls>>
        ELSE \E out \in ReadOutcomes :
               LET lead == todaysLeads[Len(results[p]) + 1]
                   where == << Cond("website_url_c", "EqualTo", UrlOf(lead)),
                               Cond("created_at_c", "LessThan", IsoString(now)) >>
                   resp == fetchRecords(store["lead_c"], {"created_at_c"}, where, out)
                   verdicts == Append(results[p],
                                      [lead |-> lead, fresh |-> IsFresh(resp), answer |-> resp])
               IN /\ Request(p, "fetchRecords", resp)
                  /\ IF resp.thrown
                     THEN Finish(p, Returned(todaysLeads)) /\ UNCHANGED results
                     ELSE /\ results' = [results EXCEPT ![p] = verdicts]
                          /\ IF Len(verdicts) < Len(todaysLeads)
                             THEN UNCHANGED <<pc, result>>
                             ELSE Finish(p, Returned(FreshLeads(verdicts)))
                  /\ UNCHANGED <<service, now, store, op, arg, existing, sent>>

\* the lists of leads the callers hand to getFreshLeadsOnly: objects of the
\* application and rows of the record store
FreshLeadInputs ==
  LET l1 == [Id |-> Num(1), websiteUrl |-> Str(<<"a", "/">>), createdAt |-> IsoString(1)]
      l2 == [Id |-> Num(2), website_url_c |-> Str(<<"A">>), created_at_c |-> IsoString(0)]
      l3 == [Id |-> Num(3), websiteUrl |-> Str(<<"a">>), createdAt |-> IsoString(1)]
      l4 == [Id |-> Num(4), websiteUrl |-> Str(<<"b">>)]
  IN {<<>>, <<l1>>, <<l2, l4>>, <<l3, l2, l1>>}

\* ------------------------------------------------------------ dealsService
DealFieldNames ==
  {"Name", "lead_name_c", "lead_id_c", "value_c", "stage_c", "assigned_rep_c",
   "edition_c", "start_month_c", "end_month_c", "created_at_c"}

\* getDeals, getDealById and updateDeal: the object of a deal row
DealFields ==
  << Field("Id", "Id", "raw", Undefined),
     Field("name", "Name", "raw", Undefined),
     Field("leadName", "lead_name_c", "or", Str(<<>>)),
     Field("leadId", "lead_id_c", "or", Str(<<>>)),
     Field("value", "value_c", "or", Num(0)),
     Field("stage", "stage_c", "or", Str(<<"Connected">>)),
     Field("assignedRep", "assigned_rep_c", "or", Str(<<>>)),
     Field("edition", "edition_c", "or", Str(<<"Select Edition">>)),
     Field("startMonth", "start_month_c", "or", Num(1)),
     Field("endMonth", "end_month_c", "or", Num(3)),
     Field("createdAt", "created_at_c", "now", Undefined) >>

\* createDeal: the object of the created row falls back to the input
CreatedDealFields ==
  << Field("Id", "Id", "raw", Undefined),
     Field("name", "Name", "raw", Undefined),
     Field("leadName", "lead_name_c", "input", Undefined),
     Field("leadId", "lead_id_c", "input", Undefined),
     Field("value", "value_c", "input", Undefined),
     Field("stage", "stage_c", "input", Undefined),
     Field("assignedRep", "assigned_rep_c", "input", Undefined),
     Field("edition", "edition_c", "input", Undefined),
     Field("startMonth", "start_month_c", "input", Undefined),
     Field("endMonth", "end_month_c", "input", Undefined),
     Field("createdAt", "created_at_c", "now", Undefined) >>

DealUpdateFields ==
  << Sent("name", "Name", "asis"),
     Sent("leadName", "lead_name_c", "asis"),
     Sent("leadId", "lead_id_c", "asis"),
     Sent("value", "value_c", "asis"),
     Sent("stage", "stage_c", "asis"),
     Sent("assignedRep", "assigned_rep_c", "asis"),
     Sent("edition", "edition_c", "asis"),
     Sent("startMonth", "start_month_c", "asis"),
     Sent("endMonth", "end_month_c", "asis") >>

\* createDeal: the record sent to createRecord
DealRecord(dealData, today) ==
  [Name |-> Get(dealData, "name"),
   lead_name_c |-> Get(dealData, "leadName"),
   lead_id_c |-> Get(dealData, "leadId"),
   value_c |-> Or(Get(dealData, "value"), Num(0)),
   stage_c |-> Or(Get(dealData, "stage"), Str(<<"Connected">>)),
   assigned_rep_c |-> Get(dealData, "assignedRep"),
   edition_c |-> Or(Get(dealData, "edition"), Str(<<"Select Edition">>)),
   start_month_c |-> Or(Get(dealData, "startMonth"), Num(1)),
   end_month_c |-> Or(Get(dealData, "endMonth"), Num(3)),
   created_at_c |-> IsoString(today)]

\* the day a year starts on, and the year of a day (day 0 opens year 1)
YearStart(year) == IsoString((year.n - 1) * 365)
FullYear(today) == Num(1 + today \div 365)

DealDataInputs == {EmptyObject, [name |-> Str(<<"d">>), value |-> Num(5)]}
DealUpdateInputs ==
  {EmptyObject, [stage |-> Str(<<"Won">>)], [value |-> Num(0), name |-> Undefined]}

getDeals(p) ==
  /\ At(p, "getDeals", "called")
  /\ \E out \in ReadOutcomes :
       LET year == arg[p].id
           filters == IF Truthy(year)
                      THEN << Cond("created_at_c", "GreaterThanOrEqualTo", YearStart(year)),
                              Cond("created_at_c", "LessThan", YearStart(Num(year.n + 1))) >>
                      ELSE <<>>
           resp == fetchRecords(store["deal_c"], DealFieldNames, filters, out)
           list == ListResult(resp, DealFields, now, <<>>)
       IN ReadStep(p, "fetchRecords", resp,
                   Returned([i \in 1..Len(list.val) |->
                               With(list.val[i], "year", Or(year, FullYear(now)))]))

getDealById(p) ==
  /\ At(p, "getDealById", "called")
  /\ \E out \in ReadOutcomes :
       LET resp == getRecordById(store["deal_c"], arg[p].id, DealFieldNames, out)
       IN ReadStep(p, "getRecordById", resp,
                   ByIdResult(resp, DealFields, now, "Deal not found"))

createDeal(p) ==
  /\ At(p, "createDeal", "called")
  /\ \E out \in WriteOutcomes :
       LET record == DealRecord(arg[p].data, now)
           resp == writeRecord(store["deal_c"], "createRecord", record, out)
       IN WriteStep(p, "called", "deal_c", "createRecord", record, resp,
                    WriteResult(resp,
                                Transform(CreatedDealFields, resp.results[1].data, arg[p].data, now),
                                "Failed to create deal"))

updateDeal(p) ==
  /\ At(p, "updateDeal", "called")
  /\ \E out \in WriteOutcomes :
       LET record == ApplyUpdates([Id |-> arg[p].id], arg[p].data, DealUpdateFields)
           resp == writeRecord(store["deal_c"], "updateRecord", record, out)
       IN WriteStep(p, "called", "deal_c", "updateRecord", record, resp,
                    WriteResult(resp,
                                Transform(DealFields, resp.results[1].data, EmptyObject, now),
                                "Failed to update deal"))

deleteDeal(p) ==
  /\ At(p, "deleteDeal", "called")
  /\ \E out \in WriteOutcomes :
       LET record == [Id |-> arg[p].id]
           resp == writeRecord(store["deal_c"], "deleteRecord", record, out)
       IN WriteStep(p, "called", "deal_c", "deleteRecord", record, resp,
                    DeleteResult(resp, "Failed to delete deal"))

\* --------------------------------------------------------- contactsService
ContactFieldNames ==
  {"Name", "email_c", "company_c", "assigned_rep_c", "status_c", "created_at_c"}

\* getContacts, getContactById and updateContact: the object of a contact row
ContactFields ==
  << Field("Id", "Id", "raw", Undefined),
     Field("name", "Name", "raw", Undefined),
     Field("email", "email_c", "or", Str(<<>>)),
     Field("company", "company_c", "or", Str(<<>>)),
     Field("assignedRep", "assigned_rep_c", "or", Str(<<>>)),
     Field("status", "status_c", "or", Str(<<"New">>)),
     Field("createdAt", "created_at_c", "now", Undefined) >>

\* createContact: the object of the created row falls back to the input
CreatedContactFields ==
  << Field("Id", "Id", "raw", Undefined),
     Field("name", "Name", "raw", Undefined),
     Field("email", "email_c", "input", Undefined),
     Field("company", "company_c", "input", Undefined),
     Field("assignedRep", "assigned_rep_c", "input", Undefined),
     Field("status", "status_c", "input", Undefined),
     Field("createdAt", "created_at_c", "now", Undefined) >>

ContactUpdateFields ==
  << Sent("name", "Name", "asis"),
     Sent("email", "email_c", "asis"),
     Sent("company", "company_c", "asis"),
     Sent("assignedRep", "assigned_rep_c", "asis"),
     Sent("status", "status_c", "asis") >>

\* createContact: the record sent to createRecord
ContactRecord(contactData, today) ==
  [Name |-> Get(contactData, "name"),
   email_c |-> Get(contactData, "email"),
   company_c |-> Get(contactData, "company"),
   assigned_rep_c |-> Get(contactData, "assignedRep"),
   status_c |-> Or(Get(contactData, "status"), Str(<<"New">>)),
   created_at_c |-> IsoString(today)]

ContactDataInputs == {EmptyObject, [name |-> Str(<<"c">>), email |-> Str(<<"a">>)]}
ContactUpdateInputs ==
  {EmptyObject, [status |-> Str(<<"Won">>)], [email |-> Str(<<>>), name |-> Undefined]}

getContacts(p) ==
  /\ At(p, "getContacts", "called")
  /\ \E out \in ReadOutcomes :
       LET resp == fetchRecords(store["contact_c"], ContactFieldNames, <<>>, out)
       IN ReadStep(p, "fetchRecords", resp, ListResult(resp, ContactFields, now, <<>>))

getContactById(p) ==
  /\ At(p, "getContactById", "called")
  /\ \E out \in ReadOutcomes :
       LET resp == getRecordById(store["contact_c"], arg[p].id, ContactFieldNames, out)
       IN ReadStep(p, "getRecordById", resp,
                   ByIdResult(resp, ContactFields, now, "Contact not found"))

createContact(p) ==
  /\ At(p, "createContact", "called")
  /\ \E out \in WriteOutcomes :
       LET record == ContactRecord(arg[p].data, now)
           resp == writeRecord(store["contact_c"], "createRecord", record, out)
       IN WriteStep(p, "called", "contact_c", "createRecord", record, resp,
                    WriteResult(resp,
                                Transform(CreatedContactFields, resp.results[1].data, arg[p].data, now),
                                "Failed to create contact"))

updateContact(p) ==
  /\ At(p, "updateContact", "called")
  /\ \E out \in WriteOutcomes :
       LET record == ApplyUpdates([Id |-> arg[p].id], arg[p].data, ContactUpdateFields)
           resp == writeRecord(store["contact_c"], "updateRecord", record, out)
       IN WriteStep(p, "called", "contact_c", "updateRecord", record, resp,
                    WriteResult(resp,
                                Transform(ContactFields, resp.results[1].data, EmptyObject, now),
                                "Failed to update contact"))

deleteContact(p) ==
  /\ At(p, "deleteContact", "called")
  /\ \E out \in WriteOutcomes :
       LET record == [Id |-> arg[p].id]
           resp == writeRecord(store["contact_c"], "deleteRecord", record, out)
       IN WriteStep(p, "called", "contact_c", "deleteRecord", record, resp,
                    DeleteResult(resp, "Failed to delete contact"))

\* --------------------------------------------------------- salesRepService
SalesRepFieldNames ==
  {"Name", "leads_contacted_c", "meetings_booked_c", "deals_closed_c", "total_revenue_c"}

\* every salesRepService handler: the object of a sales rep row
SalesRepFields ==
  << Field("Id", "Id", "raw", Undefined),
     Field("name", "Name", "raw", Undefined),
     Field("leadsContacted", "leads_contacted_c", "or", Num(0)),
     Field("meetingsBooked", "meetings_booked_c", "or", Num(0)),
     Field("dealsClosed", "deals_closed_c", "or", Num(0)),
     Field("totalRevenue", "total_revenue_c", "or", Num(0)) >>

SalesRepUpdateFields ==
  << Sent("name", "Name", "asis"),
     Sent("leadsContacted", "leads_contacted_c", "asis"),
     Sent("meetingsBooked", "meetings_booked_c", "asis"),
     Sent("dealsClosed", "deals_closed_c", "asis"),
     Sent("totalRevenue", "total_revenue_c", "asis") >>

\* createSalesRep: the record sent to createRecord
SalesRepRecord(repData) ==
  [Name |-> Get(repData, "name"),
   leads_contacted_c |-> Or(Get(repData, "leadsContacted"), Num(0)),
   meetings_booked_c |-> Or(Get(repData, "meetingsBooked"), Num(0)),
   deals_closed_c |-> Or(Get(repData, "dealsClosed"), Num(0)),
   total_revenue_c |-> Or(Get(repData, "totalRevenue"), Num(0))]

SalesRepDataInputs == {EmptyObject, [name |-> Str(<<"r">>), meetingsBooked |-> Num(2)]}
SalesRepUpdateInputs ==
  {EmptyObject, [dealsClosed |-> Num(1)], [meetingsBooked |-> Num(0), name |-> Undefined]}

getSalesReps(p) ==
  /\ At(p, "getSalesReps", "called")
  /\ \E out \in ReadOutcomes :
       LET resp == fetchRecords(store["sales_rep_c"], SalesRepFieldNames, <<>>, out)
       IN ReadStep(p, "fetchRecords", resp, ListResult(resp, SalesRepFields, now, <<>>))

getSalesRepById(p) ==
  /\ At(p, "getSalesRepById", "called")
  /\ \E out \in ReadOutcomes :
       LET resp == getRecordById(store["sales_rep_c"], arg[p].id, SalesRepFieldNames, out)
       IN ReadStep(p, "getRecordById", resp,
                   ByIdResult(resp, SalesRepFields, now, "Sales rep not found"))

createSalesRep(p) ==
  /\ At(p, "createSalesRep", "called")
  /\ \E out \in WriteOutcomes :
       LET record == SalesRepRecord(arg[p].data)
           resp == writeRecord(store["sales_rep_c"], "createRecord", record, out)
       IN WriteStep(p, "called", "sales_rep_c", "createRecord", record, resp,
                    WriteResult(resp,
                                Transform(SalesRepFields, resp.results[1].data, EmptyObject, now),
                                "Failed to create sales rep"))

updateSalesRep(p) ==
  /\ At(p, "updateSalesRep", "called")
  /\ \E out \in WriteOutcomes :
       LET record == ApplyUpdates([Id |-> arg[p].id], arg[p].data, SalesRepUpdateFields)
           resp == writeRecord(store["sales_rep_c"], "updateRecord", record, out)
       IN WriteStep(p, "called", "sales_rep_c", "updateRecord", record, resp,
                    WriteResult(resp,
                                Transform(SalesRepFields, resp.results[1].data, EmptyObject, now),
                                "Failed to update sales rep"))

deleteSalesRep(p) ==
  /\ At(p, "deleteSalesRep", "called")
  /\ \E out \in WriteOutcomes :
       LET record == [Id |-> arg[p].id]
           resp == writeRecord(store["sales_rep_c"], "deleteRecord", record, out)
       IN WriteStep(p, "called", "sales_rep_c", "deleteRecord", record, resp,
                    DeleteResult(resp, "Failed to delete sales rep"))

\* ------------------------------------------------------ teamMemberService
TeamFieldNames ==
  {"Name", "email_c", "role_c", "permissions_c", "status_c", "created_at_c",
   "updated_at_c", "last_login_c"}

\* {dashboard: true, every other page false}
DefaultPermissions == Object(<<"dashboard">>)

\* getTeamMembers and getTeamMemberById: the object of a member row
TeamFields ==
  << Field("Id", "Id", "raw", Undefined),
     Field("name", "Name", "raw", Undefined),
     Field("email", "email_c", "or", Str(<<>>)),
     Field("role", "role_c", "or", Str(<<"viewer">>)),
     Field("permissions", "permissions_c", "json", DefaultPermissions),
     Field("status", "status_c", "or", Str(<<"pending">>)),
     Field("createdAt", "created_at_c", "now", Undefined),
     Field("updatedAt", "updated_at_c", "now", Undefined),
     Field("lastLogin", "last_login_c", "or", Null) >>

\* inviteTeamMember: the object of the created row falls back to the input
InvitedFields ==
  << Field("Id", "Id", "raw", Undefined),
     Field("name", "Name", "raw", Undefined),
     Field("email", "email_c", "input", Undefined),
     Field("role", "role_c", "input", Undefined),
     Field("permissions", "permissions_c", "jsonInput", Undefined),
     Field("status", "status_c", "or", Str(<<"pending">>)),
     Field("createdAt", "created_at_c", "now", Undefined),
     Field("updatedAt", "updated_at_c", "now", Undefined),
     Field("lastLogin", "last_login_c", "or", Null) >>

\* updateTeamMember: the object of the updated row
UpdatedTeamFields ==
  << Field("Id", "Id", "raw", Undefined),
     Field("name", "Name", "raw", Undefined),
     Field("email", "email_c", "or", Str(<<>>)),
     Field("role", "role_c", "or", Str(<<"viewer">>)),
     Field("permissions", "permissions_c", "json", Object(<<>>)),
     Field("status", "status_c", "or", Str(<<"pending">>)),
     Field("createdAt", "created_at_c", "now", Undefined),
     Field("updatedAt", "updated_at_c", "now", Undefined),
     Field("lastLogin", "last_login_c", "or", Null) >>

TeamUpdateFields ==
  << Sent("name", "Name", "asis"),
     Sent("email", "email_c", "lower"),
     Sent("role", "role_c", "asis"),
     Sent("permissions", "permissions_c", "json"),
     Sent("status", "status_c", "asis"),
     Sent("lastLogin", "last_login_c", "asis") >>

\* a record that takes the status and the last login from the input
TeamMemberRecord_fromInput(memberData, today) ==
  [Name |-> Str(Trim(Get(memberData, "name").v)),
   email_c |-> Str(ToLowerCase(Trim(Get(memberData, "email").v))),
   role_c |-> Or(Get(memberData, "role"), Str(<<"viewer">>)),
   permissions_c |-> JSONstringify(Or(Get(memberData, "permissions"), DefaultPermissions)),
   status_c |-> Or(Get(memberData, "status"), Str(<<"pending">>)),
   created_at_c |-> IsoString(today),
   updated_at_c |-> IsoString(today),
   last_login_c |-> Or(Get(memberData, "lastLogin"), Null)]

\* inviteTeamMember: the record sent to createRecord
TeamMemberRecord(memberData, today) ==
  [Name |-> Str(Trim(Get(memberData, "name").v)),
   email_c |-> Str(ToLowerCase(Trim(Get(memberData, "email").v))),
   role_c |-> Or(Get(memberData, "role"), Str(<<"viewer">>)),
   permissions_c |-> JSONstringify(Or(Get(memberData, "permissions"), DefaultPermissions)),
   status_c |-> Str(<<"pending">>),
   created_at_c |-> IsoString(today),
   updated_at_c |-> IsoString(today),
   last_login_c |-> Null]

\* inviteTeamMember: the existence query asks for the lower-cased email
InviteQuery(memberData) ==
  << Cond("email_c", "EqualTo", Str(ToLowerCase(Get(memberData, "email").v))) >>

\* an existence query that asks for the email of any member
UpdateQuery_anyMember(id, updates) ==
  << Cond("email_c", "EqualTo", Str(ToLowerCase(Get(updates, "email").v))) >>

\* updateTeamMember: the existence query asks for another member's email
UpdateQuery(id, updates) ==
  << Cond("email_c", "EqualTo", Str(ToLowerCase(Get(updates, "email").v))),
     Cond("Id", "NotEqualTo", id) >>

\* updateTeamMember: the record sent to updateRecord
TeamUpdateRecord(id, updates, today) ==
  ApplyUpdates([Id |-> id, updated_at_c |-> IsoString(today)], updates, TeamUpdateFields)

MemberDataInputs ==
  {EmptyObject,
   [name |-> Str(<<" ">>), email |-> Str(<<"a">>)],
   [name |-> Str(<<"n">>)],
   [name |-> Str(<<"n">>), email |-> Str(<<" ">>)],
   [name |-> Str(<<"n">>), email |-> Str(<<"a">>)],
   [name |-> Str(<<"n">>), email |-> Str(<<" ", "a">>)],
   [name |-> Str(<<"n">>), email |-> Str(<<"B">>), status |-> Str(<<"active">>),
    lastLogin |-> IsoString(0)]}
MemberUpdateInputs ==
  {EmptyObject,
   [email |-> Str(<<"a">>)],
   [email |-> Str(<<"B">>)],
   [email |-> Null],
   [name |-> Str(<<"n">>), role |-> Undefined]}

getTeamMembers(p) ==
  /\ At(p, "getTeamMembers", "called")
  /\ \E out \in ReadOutcomes :
       LET resp == fetchRecords(store["team_member_c"], TeamFieldNames, <<>>, out)
       IN ReadStep(p, "fetchRecords", resp, ListResult(resp, TeamFields, now, <<>>))

getTeamMemberById(p) ==
  /\ At(p, "getTeamMemberById", "called")
  /\ \E out \in ReadOutcomes :
       LET resp == getRecordById(store["team_member_c"], arg[p].id, TeamFieldNames, out)
       IN ReadStep(p, "getRecordById", resp,
                   ByIdResult(resp, TeamFields, now, "Team member not found"))

\* inviteTeamMember up to the answer to its existence query
inviteTeamMember_check(p, outs) ==
  /\ At(p, "inviteTeamMember", "called")
  /\ IF IsBlank(Get(arg[p].data, "name"))
     THEN Reject(p, "Member name is required")
     ELSE IF IsBlank(Get(arg[p].data, "email"))
     THEN Reject(p, "Member email is required")
     ELSE \E out \in outs :
            QueryStep(p, fetchRecords(store["team_member_c"], {"email_c"},
                                      InviteQuery(arg[p].data), out))

\* inviteTeamMember from the answer to its existence query on
inviteTeamMember_create(p, outs) ==
  /\ At(p, "inviteTeamMember", "checked")
  /\ IF DuplicateFound(existing[p])
     THEN Reject(p, "A team member with this email already exists")
     ELSE \E out \in outs :
            LET record == TeamMemberRecord(arg[p].data, now)
                resp == writeRecord(store["team_member_c"], "createRecord", record, out)
            IN WriteStep(p, "checked", "team_member_c", "createRecord", record, resp,
                         WriteResult(resp,
                                     Transform(InvitedFields, resp.results[1].data, arg[p].data, now),
                                     "Failed to invite team member"))

\* updateTeamMember runs for its own callers and, after their pacing delay,
\* for activateTeamMember and deactivateTeamMember
UpdateCallers == {"updateTeamMember", "activateTeamMember", "deactivateTeamMember"}
InUpdate(p, at) ==
  /\ op[p] \in UpdateCallers
  /\ pc[p] = IF at = "called" /\ op[p] # "updateTeamMember" THEN "inner" ELSE at

\* updateTeamMember with a new email, up to the answer to its existence query
updateTeamMember_check(p, outs) ==
  /\ InUpdate(p, "called")
  /\ Truthy(Get(arg[p].data, "email"))
  /\ \E out \in outs :
       QueryStep(p, fetchRecords(store["team_member_c"], {"email_c"},
                                 UpdateQuery(arg[p].id, arg[p].data), out))

\* updateTeamMember from the answer to its existence query on, or from the
\* start when no email is given
updateTeamMember_update(p, outs) ==
  /\ IF Truthy(Get(arg[p].data, "email")) THEN InUpdate(p, "checked") ELSE InUpdate(p, "called")
  /\ IF DuplicateFound(existing[p])
     THEN Reject(p, "A team member with this email already exists")
     ELSE IF Defined(Get(arg[p].data, "email")) /\ Get(arg[p].data, "email").t # "string"
     THEN Reject(p, "TypeError")
     ELSE \E out \in outs :
            LET record == TeamUpdateRecord(arg[p].id, arg[p].data, now)
                resp == writeRecord(store["team_member_c"], "updateRecord", record, out)
            IN WriteStep(p, pc[p], "team_member_c", "updateRecord", record, resp,
                         WriteResult(resp,
                                     Transform(UpdatedTeamFields, resp.results[1].data, EmptyObject, now),
                                     "Failed to update team member"))

removeTeamMember(p) ==
  /\ At(p, "removeTeamMember", "called")
  /\ \E out \in WriteOutcomes :
       LET record == [Id |-> arg[p].id]
           resp == writeRecord(store["team_member_c"], "deleteRecord", record, out)
       IN WriteStep(p, "called", "team_member_c", "deleteRecord", record, resp,
                    DeleteResult(resp, "Failed to remove team member"))

\* activateTeamMember and deactivateTeamMember hand updateTeamMember their
\* update and pass on what it hands back
Delegate(p, updates) ==
  /\ arg' = [arg EXCEPT ![p].data = updates]
  /\ pc' = [pc EXCEPT ![p] = "inner"]
  /\ UNCHANGED <<service, now, store, op, existing, results, response, sent, calls, result>>

activateTeamMember(p) ==
  /\ At(p, "activateTeamMember", "called")
  /\ Delegate(p, [status |-> Str(<<"active">>), lastLogin |-> IsoString(now)])

deactivateTeamMember(p) ==
  /\ At(p, "deactivateTeamMember", "called")
  /\ Delegate(p, [status |-> Str(<<"inactive">>)])

\* ----------------------------------------------------------- reportService
\* parseInt of a number or of a one-digit string
parseInt(x) ==
  IF x.t = "number" THEN x
  ELSE IF x.v = <<"1">> THEN Num(1) ELSE IF x.v = <<"2">> THEN Num(2) ELSE Num(0)

\* getWebsiteUrlActivity: the object of a lead row
ActivityFields ==
  << Field("Id", "Id", "raw", Undefined),
     Field("websiteUrl", "website_url_c", "clean", Str(<<>>)),
     Field("category", "category_c", "or", Str(<<>>)),
     Field("arr", "arr_c", "or", Num(0)),
     Field("status", "status_c", "or", Str(<<>>)),
     Field("fundingType", "funding_type_c", "or", Str(<<>>)),
     Field("addedByName", "added_by_c", "lookupName", Str(<<"Unknown">>)),
     Field("createdAt", "created_at_c", "now", Undefined) >>

\* getDailyWebsiteUrls: the object of a lead row
DailyUrlFields ==
  << Field("Id", "Id", "raw", Undefined),
     Field("websiteUrl", "website_url_c", "clean", Str(<<>>)),
     Field("category", "category_c", "or", Str(<<>>)),
     Field("status", "status_c", "or", Str(<<>>)),
     Field("addedBy", "added_by_c", "lookupId", Undefined),
     Field("addedByName", "added_by_c", "lookupName", Str(<<"Unknown">>)),
     Field("createdAt", "created_at_c", "now", Undefined) >>

\* getSalesRepsForFilter: the object of a sales rep row
RepFilterFields ==
  << Field("Id", "Id", "raw", Undefined),
     Field("name", "Name", "raw", Undefined) >>

\* getWebsiteUrlActivity: the where list of its filters
ActivityFilters(filters) ==
  (IF Truthy(Get(filters, "startDate")) \/ Truthy(Get(filters, "endDate"))
   THEN << Cond("created_at_c", "GreaterThanOrEqualTo",
                IF Truthy(Get(filters, "startDate")) THEN Get(filters, "startDate")
                ELSE IsoString(0 - 36500)),
           Cond("created_at_c", "LessThanOrEqualTo",
                IF Truthy(Get(filters, "endDate")) THEN Get(filters, "endDate")
                ELSE IsoString(36500)) >>
   ELSE <<>>)
  \o (IF Truthy(Get(filters, "date"))
      THEN << Cond("created_at_c", "GreaterThanOrEqualTo", Get(filters, "date")),
              Cond("created_at_c", "LessThan", IsoString(Get(filters, "date").n + 1)) >>
      ELSE <<>>)
  \o (IF Truthy(Get(filters, "addedBy"))
      THEN << Cond("added_by_c", "EqualTo", parseInt(Get(filters, "addedBy"))) >>
      ELSE <<>>)
  \o (IF Truthy(Get(filters, "searchTerm"))
      THEN << Cond("website_url_c", "Contains",
                   Str(ToLowerCase(Get(filters, "searchTerm").v))) >>
      ELSE <<>>)

\* getStatusSummary and getCategorySummary: how many objects hold each value
\* of a key
Summary(data, key) ==
  [x \in {data[i][key] : i \in 1..Len(data)} |->
     Cardinality({i \in 1..Len(data) : data[i][key] = x})]

getStatusSummary(data) == Summary(data, "status")
getCategorySummary(data) == Summary(data, "category")

\* data.reduce((sum, lead) => sum + (lead.arr || 0), 0)
RECURSIVE TotalArr(_)
TotalArr(data) ==
  IF data = <<>> THEN 0 ELSE Or(Head(data)["arr"], Num(0)).n + TotalArr(Tail(data))

\* getWebsiteUrlActivity: the report of the transformed leads
ActivityReport(data) ==
  [data |-> data,
   summary |-> [totalUrls |-> Len(data), totalArr |-> TotalArr(data),
                byStatus |-> getStatusSummary(data),
                byCategory |-> getCategorySummary(data)]]

\* getWebsiteUrlActivity: what it hands back when the fetch fails
NoActivity ==
  [data |-> <<>>,
   summary |-> [totalUrls |-> 0, totalArr |-> 0,
                byStatus |-> EmptyObject, byCategory |-> EmptyObject]]

getWebsiteUrlActivity(p) ==
  /\ At(p, "getWebsiteUrlActivity", "called")
  /\ \E out \in ReadOutcomes :
       LET resp == fetchRecords(store["lead_c"],
                                {"Name", "website_url_c", "category_c", "arr_c", "status_c",
                                 "funding_type_c", "added_by_c", "created_at_c"},
                                ActivityFilters(arg[p].data), out)
           list == ListResult(resp, ActivityFields, now, <<>>)
       IN ReadStep(p, "fetchRecords", resp,
                   IF resp.thrown \/ ~resp.success THEN Returned(NoActivity)
                   ELSE Returned(ActivityReport(list.val)))

\* getDailyWebsiteUrls: an invalid date throws before the request is made
getDailyWebsiteUrls(p) ==
  /\ At(p, "getDailyWebsiteUrls", "called")
  /\ LET date == Get(arg[p].data, "date")
         filters == << Cond("created_at_c", "GreaterThanOrEqualTo", date),
                       Cond("created_at_c", "LessThan", IsoString(date.n + 1)) >>
                    \o (IF Truthy(arg[p].id)
                        THEN << Cond("added_by_c", "EqualTo", arg[p].id) >> ELSE <<>>)
     IN IF date = Undefined
        THEN /\ Finish(p, Returned(<<>>))
             /\ UNCHANGED <<service, now, store, op, arg, existing, results, response, sent, calls>>
        ELSE \E out \in ReadOutcomes :
               LET resp == fetchRecords(store["lead_c"],
                                        {"Name", "website_url_c", "category_c", "status_c",
                                         "added_by_c", "created_at_c"}, filters, out)
               IN ReadStep(p, "fetchRecords", resp,
                           ListResult(resp, DailyUrlFields, now, <<>>))

getSalesRepsForFilter(p) ==
  /\ At(p, "getSalesRepsForFilter", "called")
  /\ \E out \in ReadOutcomes :
       LET resp == fetchRecords(store["sales_rep_c"], {"Name"}, <<>>, out)
       IN ReadStep(p, "fetchRecords", resp, ListResult(resp, RepFilterFields, now, <<>>))

\* -------------------------------------------------------- analyticsService
\* getDateRange: the first day of the period and the day after its last
getDateRange(period, today) ==
  CASE period = Str(<<"today">>) -> [start |-> today, end |-> today + 1]
    [] period = Str(<<"yesterday">>) -> [start |-> today - 1, end |-> today]
    [] period = Str(<<"week">>) -> [start |-> today - 7, end |-> today + 1]
    [] period = Str(<<"month">>) -> [start |-> today - 30, end |-> today + 1]
    [] OTHER -> [start |-> 0 - 36500, end |-> today + 1]

\* the where list of a period and a user; 'all' stands for no filter
PeriodFilters(period, today) ==
  IF period # Str(<<"all">>)
  THEN << Cond("created_at_c", "GreaterThanOrEqualTo",
               IsoString(getDateRange(period, today).start)),
          Cond("created_at_c", "LessThan", IsoString(getDateRange(period, today).end)) >>
  ELSE <<>>

UserFilters(userId) ==
  IF userId # Str(<<"all">>)
  THEN << Cond("added_by_c", "EqualTo", parseInt(userId)) >> ELSE <<>>

\* getLeadsAnalytics: the keys added to a lead row
AnalyticsFields ==
  << Field("websiteUrl", "website_url_c", "raw", Undefined),
     Field("teamSize", "team_size_c", "raw", Undefined),
     Field("arr", "arr_c", "raw", Undefined),
     Field("category", "category_c", "raw", Undefined),
     Field("linkedinUrl", "linkedin_url_c", "raw", Undefined),
     Field("status", "status_c", "raw", Undefined),
     Field("fundingType", "funding_type_c", "raw", Undefined),
     Field("edition", "edition_c", "raw", Undefined),
     Field("followUpDate", "follow_up_date_c", "raw", Undefined),
     Field("addedBy", "added_by_c", "lookupId", Undefined),
     Field("addedByName", "added_by_c", "lookupName", Str(<<"Unknown">>)),
     Field("createdAt", "created_at_c", "raw", Undefined) >>

\* {...lead, websiteUrl: lead.website_url_c, ...}
Enhanced(row) ==
  LET added == Transform(AnalyticsFields, row, EmptyObject, 0)
  IN [k \in DOMAIN row \cup DOMAIN added |-> IF k \in DOMAIN added THEN added[k] ELSE row[k]]

NoLeads == [leads |-> <<>>, totalCount |-> 0]

\* A handler's first of two reads: it hands back its default when the
\* answer is a failure and goes on otherwise.
FirstRead(p, resp, default) ==
  /\ Request(p, "fetchRecords", resp)
  /\ IF resp.thrown \/ ~resp.success
     THEN /\ Finish(p, Returned(default))
          /\ UNCHANGED existing
     ELSE /\ existing' = [existing EXCEPT ![p] = resp]
          /\ pc' = [pc EXCEPT ![p] = "fetched"]
          /\ UNCHANGED result
  /\ UNCHANGED <<service, now, store, op, arg, sent, results>>

\* getLeadsAnalytics up to the answer to its leads query
getLeadsAnalytics_leads(p) ==
  /\ At(p, "getLeadsAnalytics", "called")
  /\ \E out \in ReadOutcomes :
       FirstRead(p, fetchRecords(store["lead_c"], LeadFieldNames,
                                 PeriodFilters(Get(arg[p].data, "period"), now)
                                 \o UserFilters(Get(arg[p].data, "userId")), out),
                 NoLeads)

\* getLeadsAnalytics from its sales reps query on
getLeadsAnalytics_reps(p) ==
  /\ At(p, "getLeadsAnalytics", "fetched")
  /\ \E out \in ReadOutcomes :
       LET resp == fetchRecords(store["sales_rep_c"], {"Name"}, <<>>, out)
           leads == IF existing[p].hasData THEN existing[p].data ELSE <<>>
       IN ReadStep(p, "fetchRecords", resp,
                   IF resp.thrown THEN Returned(NoLeads)
                   ELSE Returned([leads |-> [i \in 1..Len(leads) |-> Enhanced(leads[i])],
                                  totalCount |-> Len(leads)]))

NoChart == [chartData |-> <<>>, categories |-> <<>>, series |-> <<>>]

\* a window that ends the day before the current one
ChartData_endingYesterday(leads, days, today) ==
  [k \in 1..days |->
     LET date == today - (days - k) - 1
     IN [date |-> IsoString(date),
         count |-> Cardinality({i \in 1..Len(leads) :
                                  /\ Truthy(Get(leads[i], "created_at_c"))
                                  /\ Get(leads[i], "created_at_c").n = date}),
         formattedDate |-> IsoString(date)]]

\* getDailyLeadsChart: one entry per day of the window, oldest first, each
\* counting the leads whose created_at_c is of that day
ChartData(leads, days, today) ==
  [k \in 1..days |->
     LET date == today - (days - k)
     IN [date |-> IsoString(date),
         count |-> Cardinality({i \in 1..Len(leads) :
                                  /\ Truthy(Get(leads[i], "created_at_c"))
                                  /\ Get(leads[i], "created_at_c").n = date}),
         formattedDate |-> IsoString(date)]]

getDailyLeadsChart(p) ==
  /\ At(p, "getDailyLeadsChart", "called")
  /\ \E out \in ReadOutcomes :
       LET resp == fetchRecords(store["lead_c"], {"created_at_c", "added_by_c"},
                                UserFilters(Get(arg[p].data, "userId")), out)
           leads == IF resp.hasData THEN resp.data ELSE <<>>
           chartData == ChartData(leads, Get(arg[p].data, "days").n, now)
       IN ReadStep(p, "fetchRecords", resp,
                   IF resp.thrown \/ ~resp.success THEN Returned(NoChart)
                   ELSE Returned([chartData |-> chartData,
                                  categories |-> [k \in DOMAIN chartData |->
                                                    chartData[k].formattedDate],
                                  series |-> << [name |-> "New Leads",
                                                 data |-> [k \in DOMAIN chartData |->
                                                             chartData[k].count]] >>]))

\* Math.round(a / b * 100) for b > 0: the half rounds up
RoundedPercent(a, b) == (200 * a + b) \div (2 * b)

\* not a number
NaN == [t |-> "number", v |-> <<"NaN">>, n |-> 0]

\* a row whose counts of today and of the month are taken for each other
UserStats_swapped(rep, leads, today) ==
  LET userLeads == {i \in 1..Len(leads) :
                      LET by == Get(leads[i], "added_by_c")
                      IN (IF by.t = "object" THEN Or(Num(by.n), by) ELSE by) = rep["Id"]}
      since(day) == Cardinality({i \in userLeads :
                                   /\ Get(leads[i], "created_at_c").t = "string"
                                   /\ Get(leads[i], "created_at_c").v = <<"T">>
                                   /\ Get(leads[i], "created_at_c").n >= day})
      booked == Get(rep, "meetings_booked_c")
      closed == Get(rep, "deals_closed_c")
  IN [Id |-> rep["Id"],
      name |-> Get(rep, "Name"),
      leadsContacted |-> Or(Get(rep, "leads_contacted_c"), Num(0)),
      meetingsBooked |-> Or(booked, Num(0)),
      dealsClosed |-> Or(closed, Num(0)),
      totalRevenue |-> Or(Get(rep, "total_revenue_c"), Num(0)),
      totalLeads |-> Cardinality(userLeads),
      todayLeads |-> since(today - 30),
      weekLeads |-> since(today - 7),
      monthLeads |-> since(today),
      conversionRate |->
        IF booked.t = "number" /\ booked.n > 0
        THEN IF closed.t = "number" THEN Num(RoundedPercent(closed.n, booked.n))
             ELSE IF closed.t = "null" THEN Num(0) ELSE NaN
        ELSE Num(0)]

\* getUserPerformance: the row of one sales rep
UserStats(rep, leads, today) ==
  LET userLeads == {i \in 1..Len(leads) :
                      LET by == Get(leads[i], "added_by_c")
                      IN (IF by.t = "object" THEN Or(Num(by.n), by) ELSE by) = rep["Id"]}
      since(day) == Cardinality({i \in userLeads :
                                   /\ Get(leads[i], "created_at_c").t = "string"
                                   /\ Get(leads[i], "created_at_c").v = <<"T">>
                                   /\ Get(leads[i], "created_at_c").n >= day})
      booked == Get(rep, "meetings_booked_c")
      closed == Get(rep, "deals_closed_c")
  IN [Id |-> rep["Id"],
      name |-> Get(rep, "Name"),
      leadsContacted |-> Or(Get(rep, "leads_contacted_c"), Num(0)),
      meetingsBooked |-> Or(booked, Num(0)),
      dealsClosed |-> Or(closed, Num(0)),
      totalRevenue |-> Or(Get(rep, "total_revenue_c"), Num(0)),
      totalLeads |-> Cardinality(userLeads),
      todayLeads |-> since(today),
      weekLeads |-> since(today - 7),
      monthLeads |-> since(today - 30),
      conversionRate |->
        IF booked.t = "number" /\ booked.n > 0
        THEN IF closed.t = "number" THEN Num(RoundedPercent(closed.n, booked.n))
             ELSE IF closed.t = "null" THEN Num(0) ELSE NaN
        ELSE Num(0)]

\* rows handed back in the order of the sales reps
SortByTotalLeads_unsorted(rows) == rows

\* userStats.sort((a, b) => b.totalLeads - a.totalLeads): a stable sort
RECURSIVE SortByTotalLeads(_)
SortByTotalLeads(rows) ==
  IF rows = <<>> THEN <<>>
  ELSE LET i == CHOOSE i \in 1..Len(rows) :
                  /\ \A j \in 1..Len(rows) : rows[j].totalLeads <= rows[i].totalLeads
                  /\ \A j \in 1..(i - 1) : rows[j].totalLeads < rows[i].totalLeads
       IN <<rows[i]>> \o SortByTotalLeads(SubSeq(rows, 1, i - 1) \o SubSeq(rows, i + 1, Len(rows)))

\* getUserPerformance up to the answer to its sales reps query
getUserPerformance_reps(p) ==
  /\ At(p, "getUserPerformance", "called")
  /\ \E out \in ReadOutcomes :
       FirstRead(p, fetchRecords(store["sales_rep_c"], SalesRepFieldNames, <<>>, out), <<>>)

\* getUserPerformance from its leads query on
getUserPerformance_leads(p) ==
  /\ At(p, "getUserPerformance", "fetched")
  /\ \E out \in ReadOutcomes :
       LET resp == fetchRecords(store["lead_c"], {"added_by_c", "created_at_c"}, <<>>, out)
           salesReps == IF existing[p].hasData THEN existing[p].data ELSE <<>>
           leads == IF resp.success THEN resp.data ELSE <<>>
       IN ReadStep(p, "fetchRecords", resp,
                   IF resp.thrown \/ (resp.success /\ ~resp.hasData /\ salesReps # <<>>)
                   THEN Returned(<<>>)
                   ELSE Returned(SortByTotalLeads(
                          [i \in 1..Len(salesReps) |-> UserStats(salesReps[i], leads, now)])))

\* getLeadsMetrics: the periods it queries, one after the other
Periods ==
  << Str(<<"today">>), Str(<<"yesterday">>), Str(<<"week">>), Str(<<"month">>),
     Str(<<"all">>) >>

\* results[period] = response.success ? response.data : []
PeriodResult(resp) ==
  IF resp.success THEN [defined |-> resp.hasData, data |-> resp.data]
  ELSE [defined |-> TRUE, data |-> <<>>]

\* a distribution that counts each value once
Distribution_distinct(leads, field) ==
  [x \in {Or(Get(leads[i], field), Str(<<"Unknown">>)) : i \in 1..Len(leads)} |-> 1]

\* leads.reduce((acc, lead) => { acc[lead.field || 'Unknown'] += 1 }, {})
Distribution(leads, field) ==
  [x \in {Or(Get(leads[i], field), Str(<<"Unknown">>)) : i \in 1..Len(leads)} |->
     Cardinality({i \in 1..Len(leads) :
                    Or(Get(leads[i], field), Str(<<"Unknown">>)) = x})]

\* a trend that is 0 when there is nothing to compare with
TodayTrend_zeroBase(todayCount, yesterdayCount) ==
  IF yesterdayCount = 0 THEN 0
  ELSE RoundedPercent(todayCount - yesterdayCount, yesterdayCount)

\* yesterdayCount === 0 ? 100 : Math.round((today - yesterday) / yesterday * 100)
TodayTrend(todayCount, yesterdayCount) ==
  IF yesterdayCount = 0 THEN 100
  ELSE RoundedPercent(todayCount - yesterdayCount, yesterdayCount)

\* getLeadsMetrics: the metrics of the five lists, in the order of Periods
LeadsMetrics(res) ==
  [metrics |->
     [today |-> [count |-> Len(res[1].data),
                 trend |-> TodayTrend(Len(res[1].data), Len(res[2].data)),
                 label |-> "Today"],
      yesterday |-> [count |-> Len(res[2].data), label |-> "Yesterday"],
      week |-> [count |-> Len(res[3].data), label |-> "This Week"],
      month |-> [count |-> Len(res[4].data), label |-> "This Month"]],
   statusDistribution |-> Distribution(res[5].data, "status_c"),
   categoryDistribution |-> Distribution(res[5].data, "category_c"),
   totalLeads |-> Len(res[5].data)]

\* getLeadsMetrics: what its catch block hands back
NoMetrics ==
  [metrics |->
     [today |-> [count |-> 0, trend |-> 0, label |-> "Today"],
      yesterday |-> [count |-> 0, label |-> "Yesterday"],
      week |-> [count |-> 0, label |-> "This Week"],
      month |-> [count |-> 0, label |-> "This Month"]],
   statusDistribution |-> EmptyObject,
   categoryDistribution |-> EmptyObject,
   totalLeads |-> 0]

\* getLeadsMetrics: one turn of its loop, the request of the next period and
\* its answer; after the last one it computes the metrics, and reading the
\* length of a list that did not come throws into the catch block
getLeadsMetrics(p) ==
  /\ At(p, "getLeadsMetrics", "called")
  /\ \E out \in ReadOutcomes :
       LET period == Periods[Len(results[p]) + 1]
           resp == fetchRecords(store["lead_c"], {"status_c", "category_c", "created_at_c"},
                                UserFilters(Get(arg[p].data, "userId"))
                                \o PeriodFilters(period, now), out)
           res == Append(results[p], PeriodResult(resp))
       IN /\ Request(p, "fetchRecords", resp)
          /\ IF resp.thrown
             THEN Finish(p, Returned(NoMetrics)) /\ UNCHANGED results
             ELSE /\ results' = [results EXCEPT ![p] = res]
                  /\ IF Len(res) < Len(Periods)
                     THEN UNCHANGED <<pc, result>>
                     ELSE Finish(p, IF \E k \in 1..Len(res) : ~res[k].defined
                                    THEN Returned(NoMetrics)
                                    ELSE Returned(LeadsMetrics(res)))
          /\ UNCHANGED <<service, now, store, op, arg, existing, sent>>

\* the tables the reports read: two leads that createLead stored, the first
\* one assigned to a sales rep since, a lead another client of the record
\* store wrote with few of its fields, and two sales reps
ReportLeads ==
  { With(With(LeadRecord([websiteUrl |-> Str(<<"a", "/">>)], 0), "Id", Num(1)),
         "added_by_c", Lookup(1, <<"r">>)),
    With(LeadRecord([websiteUrl |-> Str(<<"A">>)], 1), "Id", Num(2)),
    [Id |-> Num(3), website_url_c |-> Str(<<"a">>), added_by_c |-> Num(1)] }
ReportReps ==
  { With(SalesRepRecord([name |-> Str(<<"r">>), meetingsBooked |-> Num(2)]), "Id", Num(1)),
    With(SalesRepRecord([name |-> Str(<<"s">>)]), "Id", Num(2)) }
ReportStores ==
  { [e \in Entities |->
       IF e = "lead_c" THEN leads ELSE IF e = "sales_rep_c" THEN reps ELSE {}] :
    leads \in SUBSET ReportLeads, reps \in SUBSET ReportReps }

ReportFilterInputs ==
  {EmptyObject, [date |-> IsoString(0)], [startDate |-> IsoString(1)],
   [addedBy |-> Num(1), searchTerm |-> Str(<<"A">>)]}

\* --------------------------------------------------------- specification
Ids == {Num(i) : i \in 1..MaxRecords}
ById == {[id |-> i, data |-> EmptyObject] : i \in Ids}
Plain == {NoArg}
ByIdOps ==
  {"getLeadById", "deleteLead", "getDealById", "deleteDeal", "getContactById",
   "deleteContact", "getSalesRepById", "deleteSalesRep", "getTeamMemberById",
   "removeTeamMember", "activateTeamMember", "deactivateTeamMember"}

Inputs(o) ==
  CASE o = "createLead" -> {[id |-> Null, data |-> d] : d \in LeadDataInputs}
    [] o = "updateLead" -> {[id |-> i, data |-> u] : i \in Ids, u \in LeadUpdateInputs}
    [] o = "getDeals" -> {[id |-> y, data |-> EmptyObject] : y \in {Null, Num(1), Num(2)}}
    [] o = "createDeal" -> {[id |-> Null, data |-> d] : d \in DealDataInputs}
    [] o = "updateDeal" -> {[id |-> i, data |-> u] : i \in Ids, u \in DealUpdateInputs}
    [] o = "createContact" -> {[id |-> Null, data |-> d] : d \in ContactDataInputs}
    [] o = "updateContact" -> {[id |-> i, data |-> u] : i \in Ids, u \in ContactUpdateInputs}
    [] o = "createSalesRep" -> {[id |-> Null, data |-> d] : d \in SalesRepDataInputs}
    [] o = "updateSalesRep" -> {[id |-> i, data |-> u] : i \in Ids, u \in SalesRepUpdateInputs}
    [] o = "inviteTeamMember" -> {[id |-> Null, data |-> d] : d \in MemberDataInputs}
    [] o = "updateTeamMember" -> {[id |-> i, data |-> u] : i \in Ids, u \in MemberUpdateInputs}
    [] o \in ByIdOps -> ById
    [] o = "getWebsiteUrlActivity" -> {[id |-> Null, data |-> f] : f \in ReportFilterInputs}
    [] o = "getDailyWebsiteUrls" ->
       {[id |-> i, data |-> d] : i \in {Null, Num(1)},
                                 d \in {EmptyObject, [date |-> IsoString(0)]}}
    [] o = "getLeadsAnalytics" ->
       {[id |-> Null, data |-> [period |-> Str(<<q>>), userId |-> u]] :
          q \in {"all", "today", "yesterday", "week", "month", "quarter"},
          u \in {Str(<<"all">>), Str(<<"1">>)}}
    [] o = "getDailyLeadsChart" ->
       {[id |-> Null, data |-> [userId |-> u, days |-> Num(d)]] :
          u \in {Str(<<"all">>), Num(1)}, d \in {0, 1, 2}}
    [] o = "getLeadsMetrics" ->
       {[id |-> Null, data |-> [userId |-> u]] : u \in {Str(<<"all">>), Str(<<"1">>)}}
    [] o = "getFreshLeadsOnly" ->
       {[id |-> Null, data |-> [leadsArray |-> a]] : a \in FreshLeadInputs}
    [] OTHER -> Plain

EmptyStore == [e \in Entities |-> {}]

Init ==
  /\ service \in Services
  /\ now \in 0..MaxDay
  /\ store \in IF service \in {"reports", "leadReports"} THEN ReportStores ELSE {EmptyStore}
  /\ pc = [p \in Callers |-> "idle"]
  /\ op = [p \in Callers |-> "none"]
  /\ arg = [p \in Callers |-> NoArg]
  /\ existing = [p \in Callers |-> NoResponse]
  /\ results = [p \in Callers |-> NoResults]
  /\ response = [p \in Callers |-> NoResponse]
  /\ sent = [p \in Callers |-> NoRecord]
  /\ calls = [p \in Callers |-> NoCalls]
  /\ result = [p \in Callers |-> NoResult]

AllOps == UNION {ServiceOps[s] : s \in Services}

\* One caller at a time drives any service.
Next ==
  \/ \E o \in AllOps : \E a \in Inputs(o) : Invoke(1, o, a)
  \/ Return(1)
  \/ getLeads(1)
  \/ getLeadById(1)
  \/ createLead_check(1, ReadOutcomes)
  \/ createLead_create(1, WriteOutcomes)
  \/ updateLead(1)
  \/ deleteLead(1)
  \/ getPendingFollowUps(1)
  \/ getDailyLeadsReport_leads(1)
  \/ getDailyLeadsReport_reps(1)
  \/ getFreshLeadsOnly(1)
  \/ getDeals(1)
  \/ getDealById(1)
  \/ createDeal(1)
  \/ updateDeal(1)
  \/ deleteDeal(1)
  \/ getContacts(1)
  \/ getContactById(1)
  \/ createContact(1)
  \/ updateContact(1)
  \/ deleteContact(1)
  \/ getSalesReps(1)
  \/ getSalesRepById(1)
  \/ createSalesRep(1)
  \/ updateSalesRep(1)
  \/ deleteSalesRep(1)
  \/ getTeamMembers(1)
  \/ getTeamMemberById(1)
  \/ inviteTeamMember_check(1, ReadOutcomes)
  \/ inviteTeamMember_create(1, WriteOutcomes)
  \/ updateTeamMember_check(1, ReadOutcomes)
  \/ updateTeamMember_update(1, WriteOutcomes)
  \/ removeTeamMember(1)
  \/ activateTeamMember(1)
  \/ deactivateTeamMember(1)
  \/ getWebsiteUrlActivity(1)
  \/ getDailyWebsiteUrls(1)
  \/ getSalesRepsForFilter(1)
  \/ getLeadsAnalytics_leads(1)
  \/ getLeadsAnalytics_reps(1)
  \/ getDailyLeadsChart(1)
  \/ getUserPerformance_reps(1)
  \/ getUserPerformance_leads(1)
  \/ getLeadsMetrics(1)

Spec == Init /\ [][Next]_vars

\* Two callers run createLead against the same store at once; the record
\* store answers their existence queries and may refuse a create.
ConcInit == Init /\ service = "leads"
ConcNext ==
  \/ \E p \in Callers : \E a \in Inputs("createLead") : Invoke(p, "createLead", a)
  \/ \E p \in Callers : Return(p)
  \/ \E p \in Callers : createLead_check(p, {"ok"})
  \/ \E p \in Callers : createLead_create(p, {"ok", "fail"})
ConcSpec == ConcInit /\ [][ConcNext]_vars

\* One caller invites and updates team members, one call after the other,
\* and the record store always succeeds.
TeamOkInit == Init /\ service = "teamMembers"
TeamOkNext ==
  \/ \E o \in {"inviteTeamMember", "updateTeamMember"} : \E a \in Inputs(o) : Invoke(1, o, a)
  \/ Return(1)
  \/ inviteTeamMember_check(1, {"ok"})
  \/ inviteTeamMember_create(1, {"ok"})
  \/ updateTeamMember_check(1, {"ok"})
  \/ updateTeamMember_update(1, {"ok"})
TeamOkSpec == TeamOkInit /\ [][TeamOkNext]_vars

\* One caller asks for the daily report over stores in which createSalesRep,
\* which tests no name, has stored two sales reps of the same name.
NamesakeRep ==
  With(SalesRepRecord([name |-> Str(<<"r">>), meetingsBooked |-> Num(2)]), "Id", Num(3))
DailyStores ==
  { [e \in Entities |->
       IF e = "lead_c" THEN leads ELSE IF e = "sales_rep_c" THEN reps ELSE {}] :
    leads \in SUBSET ReportLeads, reps \in SUBSET (ReportReps \cup {NamesakeRep}) }
Idle ==
  /\ pc = [p \in Callers |-> "idle"]
  /\ op = [p \in Callers |-> "none"]
  /\ arg = [p \in Callers |-> NoArg]
  /\ existing = [p \in Callers |-> NoResponse]
  /\ results = [p \in Callers |-> NoResults]
  /\ response = [p \in Callers |-> NoResponse]
  /\ sent = [p \in Callers |-> NoRecord]
  /\ calls = [p \in Callers |-> NoCalls]
  /\ result = [p \in Callers |-> NoResult]
DailyInit ==
  /\ service = "leadReports"
  /\ now \in 0..MaxDay
  /\ store \in DailyStores
  /\ Idle
DailyNext ==
  \/ Invoke(1, "getDailyLeadsReport", NoArg)
  \/ Return(1)
  \/ getDailyLeadsReport_leads(1)
  \/ getDailyLeadsReport_reps(1)
DailySpec == DailyInit /\ [][DailyNext]_vars

\* One caller asks for the user performance over stores that also hold rows
\* other clients of the record store wrote: leads of the first sales rep
\* with a created_at_c that is no date, ten days old and forty days old, and
\* sales reps without meetings_booked_c or without deals_closed_c.
PerformanceLeads ==
  ReportLeads \cup
  { [Id |-> Num(4), added_by_c |-> Num(1), created_at_c |-> Str(<<"x">>)],
    [Id |-> Num(5), added_by_c |-> Lookup(1, <<"r">>), created_at_c |-> IsoString(0 - 10)],
    [Id |-> Num(6), added_by_c |-> Num(1), created_at_c |-> IsoString(0 - 40)] }
PerformanceReps ==
  { [Id |-> Num(1), Name |-> Str(<<"r">>), meetings_booked_c |-> Num(3),
     deals_closed_c |-> Num(2)],
    [Id |-> Num(2), Name |-> Str(<<"s">>), meetings_booked_c |-> Num(2)],
    [Id |-> Num(3), Name |-> Str(<<"t">>), deals_closed_c |-> Num(1)],
    [Id |-> Num(4), Name |-> Str(<<"u">>), meetings_booked_c |-> Num(0),
     deals_closed_c |-> Num(1)] }
PerformanceStores ==
  { [e \in Entities |->
       IF e = "lead_c" THEN leads ELSE IF e = "sales_rep_c" THEN reps ELSE {}] :
    leads \in SUBSET PerformanceLeads, reps \in SUBSET PerformanceReps }
PerformanceInit ==
  /\ service = "reports"
  /\ now \in 0..MaxDay
  /\ store \in PerformanceStores
  /\ Idle
PerformanceNext ==
  \/ Invoke(1, "getUserPerformance", NoArg)
  \/ Return(1)
  \/ getUserPerformance_reps(1)
  \/ getUserPerformance_leads(1)
PerformanceSpec == PerformanceInit /\ [][PerformanceNext]_vars

\* One caller asks for the leads metrics over stores that hold up to three
\* leads created on day 0 and up to two created on day 1.
MetricsLeads ==
  ReportLeads \cup
  { With(LeadRecord([websiteUrl |-> Str(<<"b">>)], 0), "Id", Num(4)),
    With(LeadRecord([websiteUrl |-> Str(<<"b", "/">>)], 0), "Id", Num(5)),
    With(LeadRecord([websiteUrl |-> Str(<<"B">>)], 1), "Id", Num(6)) }
MetricsStores ==
  { [e \in Entities |-> IF e = "lead_c" THEN leads ELSE {}] :
    leads \in SUBSET MetricsLeads }
MetricsInit ==
  /\ service = "reports"
  /\ now \in 0..MaxDay
  /\ store \in MetricsStores
  /\ Idle
MetricsNext ==
  \/ \E a \in Inputs("getLeadsMetrics") : Invoke(1, "getLeadsMetrics", a)
  \/ Return(1)
  \/ getLeadsMetrics(1)
MetricsSpec == MetricsInit /\ [][MetricsNext]_vars

\* A caller updates one lead of a store that holds leads and, when
\* updateLead is over, reads the lead by its Id.  The invocation of
\* updateLead stays in its slot, so that what it was given can be compared
\* with what the read hands back.
RoundTripUpdates ==
  LeadUpdateInputs \cup
  { [status |-> Str(<<>>), arr |-> Num(0), websiteUrl |-> Str(<<>>)],
    [teamSize |-> Null, category |-> Str(<<"SaaS">>)],
    [addedBy |-> Num(2), edition |-> Str(<<"Black">>)] }
RoundTripInit ==
  /\ service = "leads"
  /\ now \in 0..MaxDay
  /\ store \in {st \in ReportStores : st["sales_rep_c"] = {}}
  /\ Idle
RoundTripNext ==
  \/ \E i \in Ids : \E u \in RoundTripUpdates :
       Invoke(1, "updateLead", [id |-> i, data |-> u])
  \/ updateLead(1)
  \/ pc[1] = "done" /\ Invoke(2, "getLeadById", [id |-> arg[1].id, data |-> EmptyObject])
  \/ getLeadById(2)
  \/ Return(2)
RoundTripSpec == RoundTripInit /\ [][RoundTripNext]_vars

\* ------------------------------------------------------------- properties
Creates == {"createLead", "createDeal", "createContact", "createSalesRep", "inviteTeamMember"}
Updates == {"updateLead", "updateDeal", "updateContact", "updateSalesRep", "updateTeamMember"}
Deletes == {"deleteLead", "deleteDeal", "deleteContact", "deleteSalesRep", "removeTeamMember"}
Mutations == Creates \cup Updates \cup Deletes
ListReads ==
  {"getLeads", "getDeals", "getContacts", "getSalesReps", "getTeamMembers",
   "getPendingFollowUps", "getWebsiteUrlActivity", "getDailyWebsiteUrls",
   "getSalesRepsForFilter", "getLeadsAnalytics", "getDailyLeadsChart", "getUserPerformance"}
ByIdReads ==
  {"getLeadById", "getDealById", "getContactById", "getSalesRepById", "getTeamMemberById"}

WritePrimitive(o) ==
  IF o \in Creates THEN "createRecord"
  ELSE IF o \in Updates \cup UpdateCallers THEN "updateRecord" ELSE "deleteRecord"

\* caller p's mutation has made its write and is over
WroteAndDone(p) ==
  /\ pc[p] = "done" /\ op[p] \in Mutations
  /\ calls[p][WritePrimitive(op[p])] = 1

\* the answer to the write is a success that names no record
NoRecordResult(resp) ==
  ~resp.thrown /\ resp.success /\ (~resp.hasResults \/ resp.results = <<>>)

\* C1: every mutation whose write is answered with success=false, or with
\* a first per-record result of success=false, throws and returns no value.
C1_FailedWriteThrows ==
  \A p \in Callers :
    ( /\ WroteAndDone(p)
      /\ ~response[p].thrown
      /\ \/ ~response[p].success
         \/ /\ response[p].hasResults /\ response[p].results # <<>>
            /\ ~response[p].results[1].success )
    => result[p].kind = "threw"

C1_Witness ==
  /\ WroteAndDone(1) /\ op[1] = "removeTeamMember"
  /\ response[1].success /\ response[1].hasResults /\ response[1].results # <<>>
  /\ ~response[1].results[1].success
  /\ result[1].kind = "threw"

\* what each list or report read hands back when it has nothing to show
DefaultOf(o) ==
  CASE o = "getLeads" -> [leads |-> <<>>, deduplicationResult |-> Null]
    [] o = "getWebsiteUrlActivity" ->
       [data |-> <<>>,
        summary |-> [totalUrls |-> 0, totalArr |-> 0, byStatus |-> <<>>, byCategory |-> <<>>]]
    [] o = "getLeadsAnalytics" -> [leads |-> <<>>, totalCount |-> 0]
    [] o = "getDailyLeadsChart" -> [chartData |-> <<>>, categories |-> <<>>, series |-> <<>>]
    [] OTHER -> <<>>

\* caller p's read is over and its first fetchRecords failed or threw
PrimaryFetchFailed(p) ==
  /\ pc[p] = "done" /\ op[p] \in ListReads
  /\ calls[p]["fetchRecords"] = 1
  /\ response[p].thrown \/ ~response[p].success

\* C2: a list or report read whose primary fetchRecords answers
\* success=false or throws does not throw: it returns its empty default.
C2_FailedReadReturnsDefault ==
  \A p \in Callers :
    PrimaryFetchFailed(p) => result[p] = Returned(DefaultOf(op[p]))

C2_Witness ==
  /\ PrimaryFetchFailed(1) /\ op[1] = "getUserPerformance"
  /\ response[1].thrown
  /\ result[1] = Returned(<<>>)

\* caller p's get-by-id is over and the record store had no record for it
ByIdFailed(p) ==
  /\ pc[p] = "done" /\ op[p] \in ByIdReads
  /\ response[p].thrown \/ ~response[p].success \/ ~response[p].hasData

NotFoundOf(o) ==
  CASE o = "getLeadById" -> "Lead not found"
    [] o = "getDealById" -> "Deal not found"
    [] o = "getContactById" -> "Contact not found"
    [] o = "getSalesRepById" -> "Sales rep not found"
    [] OTHER -> "Team member not found"

\* C3, as the code has it: a get-by-id read whose answer is a failure, an
\* exception or carries no record throws "<entity> not found".
C3_ByIdThrowsNotFound ==
  \A p \in Callers : ByIdFailed(p) => result[p] = Threw(NotFoundOf(op[p]))

C3_Witness ==
  /\ ByIdFailed(1) /\ op[1] = "getDealById"
  /\ ~response[1].thrown /\ ~response[1].success
  /\ result[1] = Threw("Deal not found")

\* C3, as stated: a get-by-id read whose answer is a failure or absent
\* returns an empty default instead of throwing.
C3_ByIdReturnsDefault ==
  \A p \in Callers : ByIdFailed(p) => result[p].kind = "returned"

\* C4, as the code has it: when the write is answered with success=true and
\* no per-record result, a create or update throws 'No response data
\* received' and a delete reports success.
C4_NoRecordResult ==
  \A p \in Callers :
    (WroteAndDone(p) /\ NoRecordResult(response[p]))
    => result[p] = IF op[p] \in Deletes THEN Returned([success |-> TRUE])
                   ELSE Threw("No response data received")

C4_Witness ==
  /\ WroteAndDone(1) /\ op[1] = "deleteContact"
  /\ NoRecordResult(response[1]) /\ response[1].hasResults
  /\ result[1] = Returned([success |-> TRUE])

\* C4, as stated: when the write is answered with success=true and no
\* per-record result, every mutation throws.
C4_NoRecordResultThrows ==
  \A p \in Callers :
    (WroteAndDone(p) /\ NoRecordResult(response[p])) => result[p].kind = "threw"

\* C5: one invocation calls createRecord, updateRecord and deleteRecord at
\* most once each, whatever the record store answers.
C5_NoRetry ==
  \A p \in Callers :
    \A q \in {"createRecord", "updateRecord", "deleteRecord"} : calls[p][q] <= 1

C5_Witness ==
  /\ WroteAndDone(1) /\ op[1] = "updateTeamMember"
  /\ response[1].thrown
  /\ result[1].kind = "threw"
  /\ calls[1]["updateRecord"] = 1

\* the store holds a lead with exactly this website_url_c
HoldsUrl(url) == \E r \in store["lead_c"] : r["website_url_c"] = url

\* caller p's createLead got a successful answer to its existence query
\* while the store holds a lead with the URL it was given
DuplicateSeen(p) ==
  /\ op[p] = "createLead" /\ pc[p] = "checked"
  /\ existing[p].success /\ existing[p].hasData
  /\ HoldsUrl(Get(arg[p].data, "websiteUrl"))

\* C6: createLead for a URL the store already holds, with an existence
\* query that succeeds and answers with its rows, throws 'already exists',
\* never calls createRecord and leaves the store as it was.
C6_DuplicateLeadRejected ==
  [][\A p \in Callers :
       (DuplicateSeen(p) /\ pc'[p] # "checked")
       => /\ result'[p] = Threw("A lead with this website URL already exists")
          /\ calls'[p]["createRecord"] = 0
          /\ store' = store]_vars

C6_Witness ==
  /\ op[1] = "createLead" /\ pc[1] = "done"
  /\ existing[1].success /\ existing[1].hasData /\ existing[1].data # <<>>
  /\ HoldsUrl(Get(arg[1].data, "websiteUrl"))
  /\ calls[1]["createRecord"] = 0
  /\ result[1] = Threw("A lead with this website URL already exists")

\* C7: whatever the interleaving of concurrent createLead invocations, no
\* two stored leads have the same website_url_c.
C7_UniqueLeadUrls ==
  \A r1, r2 \in store["lead_c"] :
    r1["website_url_c"] = r2["website_url_c"] => r1 = r2

\* C8: after any sequence of non-overlapping inviteTeamMember and
\* updateTeamMember calls that the record store carries out, no two stored
\* team members have the same email_c.
C8_UniqueMemberEmails ==
  \A r1, r2 \in store["team_member_c"] :
    r1["email_c"] = r2["email_c"] => r1 = r2

\* a text that is missing, empty or made of whitespace only
IsBlankText(x) ==
  \/ x.t \in {"undefined", "null"}
  \/ x.t = "string" /\ \A i \in 1..Len(x.v) : x.v[i] = " "

\* caller p's create was given a missing or whitespace-only required field
MissingRequired(p) ==
  \/ op[p] = "createLead" /\ IsBlankText(Get(arg[p].data, "websiteUrl"))
  \/ /\ op[p] = "inviteTeamMember"
     /\ \/ IsBlankText(Get(arg[p].data, "name"))
        \/ IsBlankText(Get(arg[p].data, "email"))

\* C9: createLead without a websiteUrl, and inviteTeamMember without a
\* name or an email (missing or whitespace only), throw a validation error
\* and make no request of the record store.
C9_ValidationBeforeRequests ==
  \A p \in Callers :
    (MissingRequired(p) /\ pc[p] # "called")
    => /\ pc[p] = "done"
       /\ result[p] \in {Threw("Website URL is required"),
                         Threw("Member name is required"),
                         Threw("Member email is required")}
       /\ calls[p] = NoCalls

C9_Witness ==
  /\ pc[1] = "done" /\ op[1] = "inviteTeamMember"
  /\ arg[1].data = [name |-> Str(<<"n">>), email |-> Str(<<" ">>)]
  /\ result[1] = Threw("Member email is required")
  /\ calls[1] = NoCalls

UpdateTableOf(o) ==
  CASE o = "updateLead" -> LeadUpdateFields
    [] o = "updateDeal" -> DealUpdateFields
    [] o = "updateContact" -> ContactUpdateFields
    [] o = "updateSalesRep" -> SalesRepUpdateFields
    [] OTHER -> TeamUpdateFields

\* the record store's fields of the keys that `updates` has a value for
PresentFields(table, updates) ==
  {table[i].field : i \in {j \in 1..Len(table) :
                             /\ table[j].key \in DOMAIN updates
                             /\ updates[table[j].key].t # "undefined"}}

\* caller p's update has sent its record
UpdateSent(p) ==
  /\ op[p] \in Updates \cup UpdateCallers
  /\ calls[p]["updateRecord"] = 1

\* C10: the record an update sends holds the Id and exactly the fields
\* whose key is present (not undefined) in the updates; updateTeamMember
\* sends updated_at_c besides.
C10_PartialUpdateFrame ==
  \A p \in Callers :
    UpdateSent(p)
    => /\ DOMAIN sent[p] =
            {"Id"} \cup PresentFields(UpdateTableOf(op[p]), arg[p].data)
                   \cup (IF op[p] \in UpdateCallers THEN {"updated_at_c"} ELSE {})
       /\ sent[p]["Id"] = arg[p].id

C10_Witness ==
  /\ UpdateSent(1) /\ op[1] = "updateDeal"
  /\ arg[1].data = [value |-> Num(0), name |-> Undefined]
  /\ DOMAIN sent[1] = {"Id", "value_c"}

\* the sum of the counts a distribution holds
RECURSIVE SumOver(_, _)
SumOver(counts, keys) ==
  IF keys = {} THEN 0
  ELSE LET k == CHOOSE k \in keys : TRUE
       IN counts[k] + SumOver(counts, keys \ {k})
SumOfValues(counts) == SumOver(counts, DOMAIN counts)

\* every period of getLeadsMetrics was answered with a list
AllPeriodsAnswered(p) ==
  /\ ~response[p].thrown
  /\ Len(results[p]) = Len(Periods)
  /\ \A k \in 1..Len(results[p]) : results[p][k].defined

\* C11: what getLeadsMetrics hands back has a statusDistribution and a
\* categoryDistribution whose values each sum to totalLeads, the number of
\* leads the 'all' query answered; what getWebsiteUrlActivity hands back has
\* a summary whose byStatus and byCategory each sum to totalUrls, which is
\* the length of data, one object per lead the query answered.
C11_CountsSumToLength ==
  \A p \in Callers :
    pc[p] = "done" /\ result[p].kind = "returned" =>
      /\ op[p] = "getLeadsMetrics" =>
           LET m == result[p].val
           IN /\ SumOfValues(m.statusDistribution) = m.totalLeads
              /\ SumOfValues(m.categoryDistribution) = m.totalLeads
              /\ AllPeriodsAnswered(p) =>
                   m.totalLeads = Len(results[p][Len(Periods)].data)
      /\ op[p] = "getWebsiteUrlActivity" =>
           LET r == result[p].val
           IN /\ SumOfValues(r.summary.byStatus) = r.summary.totalUrls
              /\ SumOfValues(r.summary.byCategory) = r.summary.totalUrls
              /\ r.summary.totalUrls = Len(r.data)
              /\ ~response[p].thrown /\ response[p].success /\ response[p].hasData =>
                   Len(r.data) = Len(response[p].data)

\* getLeadsMetrics counted three leads of two statuses
C11_Witness ==
  /\ pc[1] = "done" /\ op[1] = "getLeadsMetrics" /\ AllPeriodsAnswered(1)
  /\ result[1].val.totalLeads = 3
  /\ Cardinality(DOMAIN result[1].val.statusDistribution) = 2

\* the sum of leadCount over the rows of a daily report
RECURSIVE SumLeadCounts(_)
SumLeadCounts(rows) ==
  IF rows = <<>> THEN 0 ELSE Head(rows).leadCount + SumLeadCounts(Tail(rows))

\* getDailyLeadsReport built its report from the list of today's leads the
\* record store answered
ReportBuilt(p) ==
  /\ pc[p] = "done" /\ op[p] = "getDailyLeadsReport"
  /\ calls[p]["fetchRecords"] = 2
  /\ existing[p].success /\ existing[p].hasData
  /\ ~response[p].thrown /\ (response[p].success => response[p].hasData)

\* C12: in the list getDailyLeadsReport hands back, the leadCount of the rows
\* sums to the number of today's leads the record store answered: every
\* fetched lead is in exactly one row.
C12_EveryLeadInOneRow ==
  \A p \in Callers :
    ReportBuilt(p) => SumLeadCounts(result[p].val) = Len(existing[p].data)

\* the record store holds a lead of this URL created before today
StoredBefore(url, today) ==
  \E r \in store["lead_c"] :
    /\ Get(r, "website_url_c") = url
    /\ Get(r, "created_at_c").t = "string" /\ Get(r, "created_at_c").n < today

\* getFreshLeadsOnly handed back a list
FreshDone(p) ==
  pc[p] = "done" /\ op[p] = "getFreshLeadsOnly" /\ result[p].kind = "returned"

\* the elements of a list
Elements(list) == {list[i] : i \in 1..Len(list)}

\* C13: every lead getFreshLeadsOnly hands back is created today and
\* the record store holds no lead of its URL created before today, whatever
\* the answers to the existence queries were.
C13_FreshLeadsAreNew ==
  \A p \in Callers :
    FreshDone(p) =>
      \A lead \in Elements(result[p].val) :
        IsToday(CreatedOf(lead), now) /\ ~StoredBefore(UrlOf(lead), now)

\* What getFreshLeadsOnly does guarantee: every lead it hands back is one of
\* the leads of leadsArray created today.  When no query threw, it hands back, in their
\* order, the leads whose query was not answered with a list of rows: a lead
\* whose query was answered with a list is handed back exactly when the
\* record store holds no lead of exactly its URL created before today, and a
\* lead whose query was answered with a failure or without a list is handed
\* back.  When a query threw, it hands back all of today's leads.
FreshLeadsFailOpen ==
  \A p \in Callers :
    FreshDone(p) =>
      LET todaysLeads == TodaysLeads(Get(arg[p].data, "leadsArray"), now)
      IN /\ \A lead \in Elements(result[p].val) :
              lead \in Elements(Get(arg[p].data, "leadsArray"))
              /\ IsToday(CreatedOf(lead), now)
         /\ response[p].thrown => result[p].val = todaysLeads
         /\ ~response[p].thrown =>
              /\ result[p].val = FreshLeads(results[p])
              /\ Len(results[p]) = Len(todaysLeads)
              /\ \A k \in 1..Len(results[p]) :
                   LET v == results[p][k]
                   IN /\ v.lead = todaysLeads[k]
                      /\ IF v.answer.success /\ v.answer.hasData
                         THEN v.fresh <=> ~StoredBefore(UrlOf(v.lead), now)
                         ELSE v.fresh

\* getLeads handed back the objects of the list the record store answered
LeadsListed(p) ==
  /\ pc[p] = "done" /\ op[p] = "getLeads" /\ result[p].kind = "returned"
  /\ ~response[p].thrown /\ response[p].success /\ response[p].hasData

\* the value of a field of a row, or the default when it is missing or falsy
ValueOrDefault(row, field, default) ==
  IF field \in DOMAIN row /\ Truthy(row[field]) THEN row[field] ELSE default

\* C14: for a list of lead rows answered successfully, getLeads hands back
\* as many objects in the same order; each keeps the Id of its row and holds
\* every field under its application key, a missing or falsy value replaced
\* by its default: websiteUrl '', teamSize '1-3', arr 0, category '',
\* linkedinUrl '', status 'Keep an Eye', fundingType 'Bootstrapped', edition
\* 'Select Edition', followUpDate null, addedByName 'Unknown' (the Name of
\* the added_by_c lookup otherwise), addedBy the Id of the lookup or the
\* value as it is, createdAt the current time.
C14_LeadFieldMapping ==
  \A p \in Callers :
    LeadsListed(p) =>
      LET rows == response[p].data
          leads == result[p].val.leads
      IN /\ Len(leads) = Len(rows)
         /\ \A i \in 1..Len(rows) :
              LET row == rows[i]
                  lead == leads[i]
                  by == IF "added_by_c" \in DOMAIN row THEN row["added_by_c"] ELSE Undefined
              IN /\ lead["Id"] = row["Id"]
                 /\ lead["websiteUrl"] = ValueOrDefault(row, "website_url_c", Str(<<>>))
                 /\ lead["teamSize"] = ValueOrDefault(row, "team_size_c", Str(<<"1-3">>))
                 /\ lead["arr"] = ValueOrDefault(row, "arr_c", Num(0))
                 /\ lead["category"] = ValueOrDefault(row, "category_c", Str(<<>>))
                 /\ lead["linkedinUrl"] = ValueOrDefault(row, "linkedin_url_c", Str(<<>>))
                 /\ lead["status"] = ValueOrDefault(row, "status_c", Str(<<"Keep an Eye">>))
                 /\ lead["fundingType"]
                      = ValueOrDefault(row, "funding_type_c", Str(<<"Bootstrapped">>))
                 /\ lead["edition"] = ValueOrDefault(row, "edition_c", Str(<<"Select Edition">>))
                 /\ lead["followUpDate"] = ValueOrDefault(row, "follow_up_date_c", Null)
                 /\ lead["createdAt"] = ValueOrDefault(row, "created_at_c", IsoString(now))
                 /\ lead["addedByName"]
                      = (IF by.t = "object" /\ by.v # <<>> THEN Str(by.v) ELSE Str(<<"Unknown">>))
                 /\ lead["addedBy"] = (IF by.t = "object" /\ by.n # 0 THEN Num(by.n) ELSE by)

\* getLeads listed three leads: one with few of its fields, whose object
\* holds the defaults, and one assigned to a sales rep
C14_Witness ==
  /\ LeadsListed(1) /\ Len(result[1].val.leads) = 3
  /\ \E i \in 1..3 :
       /\ "team_size_c" \notin DOMAIN response[1].data[i]
       /\ result[1].val.leads[i]["teamSize"] = Str(<<"1-3">>)
  /\ \E i \in 1..3 : result[1].val.leads[i]["addedByName"] = Str(<<"r">>)

\* getDailyLeadsChart handed back the chart of the leads the record store
\* answered
ChartBuilt(p) ==
  /\ pc[p] = "done" /\ op[p] = "getDailyLeadsChart" /\ result[p].kind = "returned"
  /\ ~response[p].thrown /\ response[p].success

\* the fetched leads whose created_at_c is of one of the given days
CreatedOn(leads, dates) ==
  {i \in 1..Len(leads) :
     /\ "created_at_c" \in DOMAIN leads[i]
     /\ leads[i]["created_at_c"].t = "string"
     /\ leads[i]["created_at_c"].n \in dates}

\* C15: a successful getDailyLeadsChart(userId, days) hands back exactly
\* `days` chartData entries whose dates are consecutive days in ascending
\* order, the last one the current day; the count of an entry is the number
\* of fetched leads created on its day, so a fetched lead created in the
\* window is counted in the entry of its day and in no other, and a lead
\* created outside the window or without created_at_c is counted in none.
C15_ChartWindow ==
  \A p \in Callers :
    ChartBuilt(p) =>
      LET days == arg[p].data["days"].n
          leads == response[p].data
          chartData == result[p].val.chartData
      IN /\ Len(chartData) = days
         /\ \A k \in 1..days :
              /\ chartData[k].date = IsoString(now - days + k)
              /\ chartData[k].count = Cardinality(CreatedOn(leads, {now - days + k}))
              /\ result[p].val.series[1].data[k] = chartData[k].count
         /\ \A i \in 1..Len(leads) :
              Cardinality({k \in 1..days : i \in CreatedOn(leads, {chartData[k].date.n})})
                = (IF i \in CreatedOn(leads, (now - days + 1)..now) THEN 1 ELSE 0)

\* a chart of two days over three fetched leads: one counted on the current
\* day, one on the day before, one without created_at_c in neither
C15_Witness ==
  /\ ChartBuilt(1) /\ Len(response[1].data) = 3
  /\ Len(result[1].val.chartData) = 2
  /\ result[1].val.chartData[1].count = 1
  /\ result[1].val.chartData[2].count = 1

\* getUserPerformance handed back the rows of the sales reps the record
\* store answered
PerformanceBuilt(p) ==
  /\ pc[p] = "done" /\ op[p] = "getUserPerformance" /\ result[p].kind = "returned"
  /\ calls[p]["fetchRecords"] = 2
  /\ ~response[p].thrown
  /\ ~(response[p].success /\ ~response[p].hasData /\ existing[p].data # <<>>)

\* the fetched leads added by the sales rep of this Id
AddedBy(leads, id) ==
  {i \in 1..Len(leads) :
     /\ "added_by_c" \in DOMAIN leads[i]
     /\ LET by == leads[i]["added_by_c"]
        IN (IF by.t = "object" /\ by.n # 0 THEN Num(by.n) ELSE by) = id}

\* C16: a successful getUserPerformance hands back exactly one row per
\* fetched sales rep, in order of totalLeads from the highest to the lowest,
\* and the totalLeads of a row is the number of fetched leads whose
\* added_by_c (the Id of the lookup, when it is one) is the rep's Id.
C16_OneRowPerRep ==
  \A p \in Callers :
    PerformanceBuilt(p) =>
      LET reps == existing[p].data
          leads == response[p].data
          rows == result[p].val
      IN /\ Len(rows) = Len(reps)
         /\ \A j \in 1..Len(reps) :
              /\ Cardinality({k \in 1..Len(rows) : rows[k]["Id"] = reps[j]["Id"]}) = 1
              /\ \A k \in 1..Len(rows) :
                   rows[k]["Id"] = reps[j]["Id"] =>
                     rows[k].totalLeads = Cardinality(AddedBy(leads, reps[j]["Id"]))
         /\ \A k \in 1..(Len(rows) - 1) : rows[k].totalLeads >= rows[k + 1].totalLeads

\* two sales reps fetched, the one with two leads listed first although it
\* was fetched last
C16_Witness ==
  /\ PerformanceBuilt(1) /\ Len(result[1].val) = 2
  /\ result[1].val[1].totalLeads = 2 /\ result[1].val[2].totalLeads = 0
  /\ existing[1].data[2]["Id"] = result[1].val[1]["Id"]

\* the stored leads other than the one this invocation has created
OtherLeads(p) ==
  IF Written(response[p]) /\ calls[p]["createRecord"] > 0
  THEN store["lead_c"] \ {response[p].results[1].data}
  ELSE store["lead_c"]

\* createLead is over, its existence query was answered with a list, and
\* another stored lead has the URL of the input up to letter case and one
\* trailing slash
NormalizedDuplicate(p) ==
  /\ pc[p] = "done" /\ op[p] = "createLead"
  /\ existing[p].received /\ existing[p].success /\ existing[p].hasData
  /\ \E r \in OtherLeads(p) :
       normalizeUrl(Get(r, "website_url_c")) = normalizeUrl(Get(arg[p].data, "websiteUrl"))

\* C17: createLead compares normalized URLs: when a stored lead's URL
\* differs from the input's only in letter case or one trailing slash, the
\* call is rejected as a duplicate and makes no createRecord request.
C17_NormalizedDuplicateRejected ==
  \A p \in Callers :
    NormalizedDuplicate(p) =>
      /\ result[p] = Threw("A lead with this website URL already exists")
      /\ calls[p]["createRecord"] = 0

\* createLead or inviteTeamMember has made its createRecord request
CreateRequested(p) ==
  op[p] \in {"createLead", "inviteTeamMember"} /\ calls[p]["createRecord"] > 0

\* C18: createLead and inviteTeamMember make their createRecord request only
\* after their existence query was answered successfully with no matching
\* record; after a failed existence query (success = false) they make none.
C18_CreateOnlyAfterEmptyQuery ==
  \A p \in Callers :
    CreateRequested(p) => existing[p].success /\ existing[p].data = <<>>

\* updateTeamMember runs with a non-empty updates.email
EmailUpdate(p) == op[p] = "updateTeamMember" /\ Truthy(Get(arg[p].data, "email"))

\* another member than `id` holds the lower-cased email
OtherMemberHolds(id, email) ==
  \E r \in store["team_member_c"] :
    r["Id"] # id /\ Get(r, "email_c") = Str(ToLowerCase(email.v))

\* C19: updateTeamMember(id, updates) with a non-empty updates.email is
\* rejected with 'A team member with this email already exists' exactly when
\* its existence query found a row; a query answered with a list found a row
\* exactly when a member with another Id holds the lower-cased email, every
\* row it found is such a member, so the member's own current email is not
\* found; a rejected call makes no updateRecord request.
C19_EmailTakenByAnother ==
  \A p \in Callers :
    EmailUpdate(p) =>
      /\ pc[p] = "checked" /\ existing[p].success /\ existing[p].hasData =>
           /\ DuplicateFound(existing[p])
                <=> OtherMemberHolds(arg[p].id, Get(arg[p].data, "email"))
           /\ \A k \in 1..Len(existing[p].data) :
                /\ existing[p].data[k]["Id"] # arg[p].id
                /\ existing[p].data[k]["email_c"]
                     = Str(ToLowerCase(Get(arg[p].data, "email").v))
      /\ pc[p] = "done" =>
           /\ result[p] = Threw("A team member with this email already exists")
                <=> /\ existing[p].received /\ existing[p].success
                    /\ existing[p].hasData /\ Len(existing[p].data) > 0
           /\ result[p] = Threw("A team member with this email already exists")
                => calls[p]["updateRecord"] = 0

\* an update to the email of another member was rejected
C19_Witness ==
  /\ EmailUpdate(1) /\ pc[1] = "done"
  /\ result[1] = Threw("A team member with this email already exists")
  /\ OtherMemberHolds(arg[1].id, Get(arg[1].data, "email"))
  /\ \E r \in store["team_member_c"] : r["Id"] = arg[1].id

\* the handler has sent a record with this write request
HasSent(p, o, primitive) == op[p] = o /\ calls[p][primitive] > 0

\* C20: the record inviteTeamMember sends always has status_c 'pending' and
\* last_login_c null, whatever memberData holds; the update
\* activateTeamMember sends sets status_c 'active' and last_login_c to the
\* current time; the update deactivateTeamMember sends sets status_c
\* 'inactive' and holds, besides the Id and updated_at_c, nothing else: no
\* last_login_c, Name, email_c, role_c or permissions_c.
C20_StatusWrites ==
  \A p \in Callers :
    /\ HasSent(p, "inviteTeamMember", "createRecord") =>
         sent[p]["status_c"] = Str(<<"pending">>) /\ sent[p]["last_login_c"] = Null
    /\ HasSent(p, "activateTeamMember", "updateRecord") =>
         /\ DOMAIN sent[p] = {"Id", "updated_at_c", "status_c", "last_login_c"}
         /\ sent[p]["Id"] = arg[p].id
         /\ sent[p]["status_c"] = Str(<<"active">>)
         /\ sent[p]["last_login_c"] = IsoString(now)
    /\ HasSent(p, "deactivateTeamMember", "updateRecord") =>
         /\ DOMAIN sent[p] = {"Id", "updated_at_c", "status_c"}
         /\ sent[p]["Id"] = arg[p].id
         /\ sent[p]["status_c"] = Str(<<"inactive">>)

\* a member invited with status 'active' and a lastLogin in memberData was
\* stored as pending, without a last login
C20_Witness ==
  /\ HasSent(1, "inviteTeamMember", "createRecord") /\ Written(response[1])
  /\ Get(arg[1].data, "status") = Str(<<"active">>)
  /\ Truthy(Get(arg[1].data, "lastLogin"))
  /\ \E r \in store["team_member_c"] :
       r["status_c"] = Str(<<"pending">>) /\ r["last_login_c"] = Null

\* getDailyLeadsReport built its report from the lists of leads and of
\* sales reps the record store answered
ReportOfReps(p) == ReportBuilt(p) /\ response[p].success

\* C21: getDailyLeadsReport hands back one row for every sales rep fetched,
\* holding the rep's Name and Id, also for a rep with no lead today; in every
\* row leadCount is the length of leads and lowPerformance is true exactly
\* when leadCount < 5; the rows are in order of lead count, highest first.
C21_OneRowPerSalesRep ==
  \A p \in Callers :
    ReportOfReps(p) =>
      LET reps == response[p].data
          rows == result[p].val
      IN /\ \A j \in 1..Len(reps) :
              Cardinality({k \in 1..Len(rows) :
                             /\ rows[k].salesRepId = reps[j]["Id"]
                             /\ rows[k].salesRep = Get(reps[j], "Name")}) = 1
         /\ \A k \in 1..Len(rows) :
              /\ rows[k].leadCount = Len(rows[k].leads)
              /\ rows[k].lowPerformance <=> rows[k].leadCount < 5
         /\ \A k \in 1..(Len(rows) - 1) : rows[k].leadCount >= rows[k + 1].leadCount

\* getLeadsMetrics handed back its metrics
MetricsDone(p) ==
  pc[p] = "done" /\ op[p] = "getLeadsMetrics" /\ result[p].kind = "returned"

\* C22: in every result of getLeadsMetrics the period counts are nested:
\* metrics.today.count <= metrics.week.count <= metrics.month.count <=
\* totalLeads, also when one of the five period queries is answered with a
\* failure.
C22_NestedPeriodCounts ==
  \A p \in Callers :
    MetricsDone(p) =>
      LET m == result[p].val
      IN /\ m.metrics.today.count <= m.metrics.week.count
         /\ m.metrics.week.count <= m.metrics.month.count
         /\ m.metrics.month.count <= m.totalLeads

\* getUserPerformance handed back a list of rows
PerformanceDone(p) ==
  pc[p] = "done" /\ op[p] = "getUserPerformance" /\ result[p].kind = "returned"

\* C23: in every row getUserPerformance hands back, todayLeads <= weekLeads
\* <= monthLeads <= totalLeads, whatever the created_at_c of the leads are:
\* dates of any age, missing, or no date at all.
C23_NestedLeadCounts ==
  \A p \in Callers :
    PerformanceDone(p) =>
      \A k \in 1..Len(result[p].val) :
        LET row == result[p].val[k]
        IN /\ row.todayLeads <= row.weekLeads
           /\ row.weekLeads <= row.monthLeads
           /\ row.monthLeads <= row.totalLeads

\* a sales rep with five leads: one of this week, one more of this month,
\* and three older, undated or with no date
C23_Witness ==
  /\ PerformanceDone(1) /\ Len(result[1].val) > 0
  /\ result[1].val[1].todayLeads = 0 /\ result[1].val[1].weekLeads = 1
  /\ result[1].val[1].monthLeads = 2 /\ result[1].val[1].totalLeads = 5

\* the fetched sales rep of a row of getUserPerformance
RepOf(p, row) == CHOOSE rep \in Elements(existing[p].data) : rep["Id"] = row["Id"]

\* C25: in every row getUserPerformance hands back, conversionRate is a
\* non-negative integer: 0 when the rep's meetings_booked_c is missing or
\* not greater than 0, and otherwise 100 * deals_closed_c / meetings_booked_c
\* rounded, whichever of deals_closed_c and meetings_booked_c the rep has.
C25_ConversionRateIsInteger ==
  \A p \in Callers :
    PerformanceDone(p) =>
      \A k \in 1..Len(result[p].val) :
        LET row == result[p].val[k]
            rep == RepOf(p, row)
            booked == Get(rep, "meetings_booked_c")
            closed == Get(rep, "deals_closed_c")
        IN /\ row.conversionRate # NaN
           /\ row.conversionRate.t = "number" /\ row.conversionRate.n >= 0
           /\ ~(booked.t = "number" /\ booked.n > 0) => row.conversionRate = Num(0)
           /\ booked.t = "number" /\ booked.n > 0 /\ closed.t = "number" =>
                row.conversionRate = Num((200 * closed.n + booked.n) \div (2 * booked.n))

\* the trend of a result is the percentage of the change from yesterday's
\* count to today's, rounded to the nearest integer, the half upwards; 100
\* when yesterday's count is 0
TrendOfCounts(m) ==
  LET t == m.metrics.today.count
      y == m.metrics.yesterday.count
      r == m.metrics.today.trend
  IN IF y = 0 THEN r = 100
     ELSE 2 * y * r - y <= 200 * (t - y) /\ 200 * (t - y) < 2 * y * r + y

\* C24 as stated: metrics.today.trend is the rounded percentage of the
\* change when yesterdayCount > 0 and 100 when yesterdayCount is 0, also when
\* todayCount is 0; only the exception path hands back trend 0.
C24_TrendZeroOnlyOnException ==
  \A p \in Callers :
    MetricsDone(p) =>
      /\ AllPeriodsAnswered(p) => TrendOfCounts(result[p].val)
      /\ result[p].val.metrics.today.trend = 0 => ~AllPeriodsAnswered(p)

\* C24: when every period query was answered with a list, metrics.today.trend
\* is the rounded percentage of the change when yesterdayCount > 0, which is
\* 0 when the two counts are equal, and 100 when yesterdayCount is 0, also
\* when todayCount is 0; the exception path hands back trend 0 with all
\* counts 0.
C24_Trend ==
  \A p \in Callers :
    MetricsDone(p) =>
      /\ AllPeriodsAnswered(p) =>
           /\ TrendOfCounts(result[p].val)
           /\ result[p].val.metrics.today.count = Len(results[p][1].data)
           /\ result[p].val.metrics.yesterday.count = Len(results[p][2].data)
           /\ result[p].val.metrics.today.trend = 0 =>
                /\ result[p].val.metrics.yesterday.count > 0
                /\ result[p].val.metrics.today.count
                     = result[p].val.metrics.yesterday.count
      /\ ~AllPeriodsAnswered(p) =>
           /\ result[p].val.metrics.today.trend = 0
           /\ result[p].val.metrics.today.count = 0
           /\ result[p].val.metrics.yesterday.count = 0

\* today's two leads against yesterday's three: a trend of -33
C24_Witness ==
  /\ MetricsDone(1) /\ AllPeriodsAnswered(1)
  /\ result[1].val.metrics.today.count = 2
  /\ result[1].val.metrics.yesterday.count = 3
  /\ result[1].val.metrics.today.trend = 0 - 33

\* a successful updateLead was followed by a successful getLeadById of the
\* same lead
RoundTrip ==
  /\ pc[1] = "done" /\ op[1] = "updateLead" /\ result[1].kind = "returned"
  /\ pc[2] = "done" /\ op[2] = "getLeadById" /\ result[2].kind = "returned"

\* the lead as it was stored before the update
LeadBefore(id) == CHOOSE r \in ReportLeads : r["Id"] = id

\* the keys updateLead sends, the fields they are stored in and the
\* defaults getLeadById reads a missing or falsy value as
RoundTripFields ==
  { <<"websiteUrl", "website_url_c", Str(<<>>)>>,
    <<"teamSize", "team_size_c", Str(<<"1-3">>)>>,
    <<"arr", "arr_c", Num(0)>>,
    <<"category", "category_c", Str(<<>>)>>,
    <<"linkedinUrl", "linkedin_url_c", Str(<<>>)>>,
    <<"status", "status_c", Str(<<"Keep an Eye">>)>>,
    <<"fundingType", "funding_type_c", Str(<<"Bootstrapped">>)>>,
    <<"edition", "edition_c", Str(<<"Select Edition">>)>>,
    <<"followUpDate", "follow_up_date_c", Null>> }

\* updates holds the key with a value other than undefined
Given(updates, key) == key \in DOMAIN updates /\ updates[key] # Undefined

====
